---- MODULE Spec2Model ----
(***************************************************************************)
(* A model of the registry-client access layer of mcp-docker: the rate     *)
(* limiter (utils/rate-limiter.ts), the auth manager (auth/auth-manager.ts)*)
(* and the error normalisation they rest on (utils/error-handler.ts).      *)
(*                                                                         *)
(* Time is the value Date.now() returns, in milliseconds.  One synchronous *)
(* run of JavaScript (everything up to the next await that really          *)
(* suspends) is one action and reads one value of the clock; the clock     *)
(* moves in steps of TickMs between such runs.                             *)
(***************************************************************************)
EXTENDS Integers, Sequences, FiniteSets, TLC

\* ------------------------------------------------------------------ bounds
TickMs == 500
StartMs == 1000
MaxNow == 2000
WindowSec == 1
MaxLimit == 2
NumCalls == 2
NumAuthCalls == 2
MaxExpiresIn == 1
MaxHdr == 2
MaxResetSec == 3
NumClientCalls == 2
ElapseMs == 300000
ClientHorizonMs == 601000
MaxKeys == 2
MaxRepoLen == 4

\* ------------------------------------------------------------------ state
VARIABLES
  now,          \* Date.now()
  limits,       \* RateLimiter.limits: Map<string, RateLimitEntry>
  maxRequests,  \* RateLimiter.maxRequests
  calls,        \* one record per call of execute / waitForReset in flight
  started,      \* per key: fn invocations started inside the key's current window
  ret,          \* what the last isAllowed returned
  credentials,  \* config.dockerhub: accessToken, username, password
  tokenCache,   \* AuthManager.tokenCache: Map<string, AuthTokenInfo>
  acalls,       \* one record per call of the auth manager in flight
  tokenRequests, \* the token requests (POSTs to a token endpoint) issued so far
  cache,        \* CacheManager.cache: the node-cache store of CacheEntry records
  cret,         \* what the last get / has of the CacheManager returned
  ccalls,       \* one record per call of the DockerHubClient in flight
  httpGets,     \* per cache key: the HTTP requests issued upstream so far
  maxKeys,      \* the maxKeys option of the node-cache store (config.cache.maxSize)
  defaultTTL,   \* CacheManager.defaultTTL (config.cache.ttlSeconds)
  parsed,       \* a repository string and what parseRepository made of it
  keyed         \* arguments of generateKey and the keys it made of them

rlVars == <<limits, maxRequests, calls, started, ret>>
authVars == <<credentials, tokenCache, acalls, tokenRequests>>
clientVars == <<cache, cret, ccalls, httpGets, maxKeys, defaultTTL, parsed, keyed>>
vars == <<now, rlVars, authVars, clientVars>>

Keys == {"default", "k"}
Procs == 1..NumCalls

Max(a, b) == IF a >= b THEN a ELSE b

\* ------------------------------------------------------------ rate limiter
\* constructor: this.windowMs = (windowMs || config.dockerhub.rateLimitWindow) * 1000
windowMs == WindowSec * 1000

Tracked(lim, key) == key \in DOMAIN lim

MapSet(lim, key, e) == [k \in DOMAIN lim \cup {key} |-> IF k = key THEN e ELSE lim[k]]

MapDelete(lim, key) == [k \in DOMAIN lim \ {key} |-> lim[k]]

EmptyMap == [k \in {} |-> 0]

\* isAllowed with the limit compared by > : one call too many is let through
isAllowedRetOffByOne(lim, maxReq, t, key) ==
  IF ~Tracked(lim, key) \/ t >= lim[key].resetTime THEN TRUE
  ELSE IF lim[key].count > maxReq THEN FALSE
  ELSE TRUE

\* isAllowed: the value returned
isAllowedRet(lim, maxReq, t, key) ==
  IF ~Tracked(lim, key) \/ t >= lim[key].resetTime THEN TRUE
  ELSE IF lim[key].count >= maxReq THEN FALSE
  ELSE TRUE

\* isAllowed counting the call before it looks at the limit
isAllowedMapUnchecked(lim, maxReq, t, key) ==
  IF ~Tracked(lim, key) \/ t >= lim[key].resetTime
    THEN MapSet(lim, key, [count |-> 1, resetTime |-> t + windowMs])
  ELSE MapSet(lim, key, [count |-> lim[key].count + 1, resetTime |-> lim[key].resetTime])

\* isAllowed: the map it leaves
isAllowedMap(lim, maxReq, t, key) ==
  IF ~Tracked(lim, key) \/ t >= lim[key].resetTime
    THEN MapSet(lim, key, [count |-> 1, resetTime |-> t + windowMs])
  ELSE IF lim[key].count >= maxReq THEN lim
  ELSE MapSet(lim, key, [count |-> lim[key].count + 1, resetTime |-> lim[key].resetTime])

getInfo(lim, maxReq, t, key) ==
  IF ~Tracked(lim, key) \/ t >= lim[key].resetTime
    THEN [remaining |-> maxReq - 1, reset |-> t + windowMs, limit |-> maxReq]
    ELSE [remaining |-> Max(0, maxReq - lim[key].count),
          reset |-> lim[key].resetTime, limit |-> maxReq]

\* waitForReset with the wait cut short by a tick
waitTimeShort(info, t) == info.reset - t - TickMs

\* waitForReset: the time the caller is suspended until, or -1 when it is not suspended
waitTime(info, t) == info.reset - t

waitForResetUntil(lim, maxReq, t, key) ==
  LET info == getInfo(lim, maxReq, t, key) IN
  IF info.remaining > 0 THEN -1
  ELSE IF waitTime(info, t) > 0 THEN t + waitTime(info, t)
  ELSE -1

\* A header value: << >> when the header is absent, <<n>> when it carries the decimal n.
Absent == << >>
HdrVal(n) == <<n>>

\* parseInt(headers[a] || headers[b] || '0', 10)
parseHeader(a, b) == IF a # Absent THEN a[1] ELSE IF b # Absent THEN b[1] ELSE 0

hdrLimit(h) == parseHeader(h.xlimit, h.limit)
hdrRemaining(h) == parseHeader(h.xremaining, h.remaining)
hdrReset(h) == parseHeader(h.xreset, h.reset)

updateMaxRequests(h, maxReq) == IF hdrLimit(h) > 0 THEN hdrLimit(h) ELSE maxReq

\* updateFromHeaders taking the reset header for milliseconds
updateResetTimeSeconds(h) == hdrReset(h)

updateResetTime(h) == hdrReset(h) * 1000

updateCount(h) == Max(0, hdrLimit(h) - hdrRemaining(h))

updateMap(h, lim, key) ==
  IF hdrReset(h) > 0
    THEN MapSet(lim, key, [count |-> updateCount(h), resetTime |-> updateResetTime(h)])
    ELSE lim

\* The header maps a response can carry: the three values under the x-ratelimit-*
\* names, under the ratelimit-* names, or under both (the second then carrying 0).
HdrLimits == {Absent} \cup {HdrVal(n) : n \in 1..MaxHdr}
HdrRemainings == {Absent} \cup {HdrVal(n) : n \in 0..MaxHdr}
HdrResets == {Absent} \cup {HdrVal(n) : n \in 1..MaxResetSec}
HdrForms(l) == IF l = HdrVal(MaxHdr) THEN {"x", "plain", "both"} ELSE {"x"}
Zeroed(v) == IF v = Absent THEN Absent ELSE HdrVal(0)
Headers(form, l, r, s) ==
  CASE form = "x" -> [xlimit |-> l, limit |-> Absent, xremaining |-> r,
                      remaining |-> Absent, xreset |-> s, reset |-> Absent]
    [] form = "plain" -> [xlimit |-> Absent, limit |-> l, xremaining |-> Absent,
                          remaining |-> r, xreset |-> Absent, reset |-> s]
    [] OTHER -> [xlimit |-> l, limit |-> Zeroed(l), xremaining |-> r,
                 remaining |-> Zeroed(r), xreset |-> s, reset |-> Zeroed(s)]

IdleCall == [pc |-> "idle", key |-> "default", wakeAt |-> -1, fnCalls |-> 0, err |-> -1]

\* execute: return await fn()
fnInvoked(key) == [pc |-> "done", key |-> key, wakeAt |-> -1, fnCalls |-> 1, err |-> -1]

\* execute invoking fn before it throws
rateLimitThrownAfterFn(key, info) ==
  [pc |-> "thrown", key |-> key, wakeAt |-> -1, fnCalls |-> 1, err |-> info.reset]

\* execute: throw new RateLimitError(..., info.reset)
rateLimitThrown(key, info) ==
  [pc |-> "thrown", key |-> key, wakeAt |-> -1, fnCalls |-> 0, err |-> info.reset]

\* execute: await this.waitForReset(key), suspended on its timer
waitingForReset(key, until) ==
  [pc |-> "waiting", key |-> key, wakeAt |-> until, fnCalls |-> 0, err |-> -1]

\* started: a fn invocation at time t counts for the key's window when the key has an
\* entry whose window is still open
fnStarted(st, lim, t, key) ==
  IF Tracked(lim, key) /\ t < lim[key].resetTime
    THEN [st EXCEPT ![key] = @ + 1] ELSE st

\* a new window for key: the count of started invocations starts again
windowOpened(st, lim, lim2, key) ==
  IF Tracked(lim2, key) /\ (~Tracked(lim, key) \/ lim[key].resetTime # lim2[key].resetTime)
    THEN [st EXCEPT ![key] = 0] ELSE st

InitLimiter(maxReq) ==
  /\ limits = EmptyMap
  /\ maxRequests = maxReq
  /\ calls = [p \in Procs |-> IdleCall]
  /\ started = [k \in Keys |-> 0]
  /\ ret = TRUE

\* isAllowed(key), called on its own
IsAllowed(key) ==
  /\ limits' = isAllowedMap(limits, maxRequests, now, key)
  /\ started' = windowOpened(started, limits, limits', key)
  /\ ret' = isAllowedRet(limits, maxRequests, now, key)
  /\ UNCHANGED <<now, maxRequests, calls>>
  /\ UNCHANGED <<authVars, clientVars>>

\* execute(fn, key, throwOnLimit), up to its first suspension: isAllowed, then fn at
\* once, or the RateLimitError, or waitForReset and its timer
Execute(p, key, throwOnLimit) ==
  /\ calls[p].pc = "idle"
  /\ LET ok == isAllowedRet(limits, maxRequests, now, key)
         lim2 == isAllowedMap(limits, maxRequests, now, key)
         st2 == windowOpened(started, limits, lim2, key)
         until == waitForResetUntil(lim2, maxRequests, now, key)
     IN /\ limits' = lim2
        /\ IF ok \/ (~throwOnLimit /\ until = -1)
             THEN /\ calls' = [calls EXCEPT ![p] = fnInvoked(key)]
                  /\ started' = fnStarted(st2, lim2, now, key)
           ELSE IF throwOnLimit
             THEN /\ calls' = [calls EXCEPT ![p] =
                        rateLimitThrown(key, getInfo(lim2, maxRequests, now, key))]
                  /\ started' = st2
           ELSE /\ calls' = [calls EXCEPT ![p] = waitingForReset(key, until)]
                /\ started' = st2
        /\ ret' = ok
  /\ UNCHANGED <<now, maxRequests>>
  /\ UNCHANGED <<authVars, clientVars>>

\* waitForReset(key), called on its own, up to its suspension
WaitForReset(p, key) ==
  /\ calls[p].pc = "idle"
  /\ LET until == waitForResetUntil(limits, maxRequests, now, key)
     IN calls' = [calls EXCEPT ![p] =
          [pc |-> IF until = -1 THEN "returned" ELSE "sleeping", key |-> key,
           wakeAt |-> until, fnCalls |-> 0, err |-> -1]]
  /\ UNCHANGED <<now, limits, maxRequests, started, ret>>
  /\ UNCHANGED <<authVars, clientVars>>

\* the timer of waitForReset fires: waitForReset returns, and execute goes on to fn
Suspended(p) == calls[p].pc \in {"waiting", "sleeping"}

Wake(p) ==
  /\ Suspended(p)
  /\ now >= calls[p].wakeAt
  /\ IF calls[p].pc = "waiting"
       THEN /\ calls' = [calls EXCEPT ![p].pc = "done", ![p].fnCalls = @ + 1]
            /\ started' = fnStarted(started, limits, now, calls[p].key)
       ELSE /\ calls' = [calls EXCEPT ![p].pc = "returned"]
            /\ started' = started
  /\ UNCHANGED <<now, limits, maxRequests, ret>>
  /\ UNCHANGED <<authVars, clientVars>>

UpdateFromHeaders(h, key) ==
  /\ maxRequests' = updateMaxRequests(h, maxRequests)
  /\ limits' = updateMap(h, limits, key)
  /\ started' = windowOpened(started, limits, limits', key)
  /\ UNCHANGED <<now, calls, ret>>
  /\ UNCHANGED <<authVars, clientVars>>

Clear(key) ==
  /\ limits' = MapDelete(limits, key)
  /\ started' = [started EXCEPT ![key] = 0]
  /\ UNCHANGED <<now, maxRequests, calls, ret>>
  /\ UNCHANGED <<authVars, clientVars>>

ClearAll ==
  /\ limits' = EmptyMap
  /\ started' = [k \in Keys |-> 0]
  /\ UNCHANGED <<now, maxRequests, calls, ret>>
  /\ UNCHANGED <<authVars, clientVars>>

\* ------------------------------------------------------------ error handler
\* What an awaited HTTP call can throw. An AxiosError carries the response (here its
\* status, << >> when none was received) and whether the request was sent.
AxiosError(status) == [cls |-> "AxiosError", response |-> <<status>>, request |-> TRUE]
NoResponse == [cls |-> "AxiosError", response |-> << >>, request |-> TRUE]
SetupError == [cls |-> "AxiosError", response |-> << >>, request |-> FALSE]
PlainError == [cls |-> "Error", response |-> << >>, request |-> FALSE]

FailStatuses == {401, 403, 429, 500}

\* statusCode: -1 stands for undefined
DockerHubError(status) == [name |-> "DockerHubError", statusCode |-> status]
RateLimitError == [name |-> "RateLimitError", statusCode |-> 429]
AuthenticationError == [name |-> "AuthenticationError", statusCode |-> 401]

\* handleAxiosError taking a 403 for an authentication failure too
handleAxiosErrorForbiddenAsAuth(e) ==
  IF e.response = << >> THEN DockerHubError(-1)
  ELSE CASE e.response[1] \in {401, 403} -> AuthenticationError
         [] e.response[1] = 429 -> RateLimitError
         [] OTHER -> DockerHubError(e.response[1])

handleAxiosError(e) ==
  IF e.response = << >> THEN DockerHubError(-1)
  ELSE CASE e.response[1] = 401 -> AuthenticationError
         [] e.response[1] = 429 -> RateLimitError
         [] OTHER -> DockerHubError(e.response[1])

handleError(e) ==
  CASE e.cls = "DockerHubError" -> e.err
    [] e.cls = "AxiosError" -> handleAxiosError(e)
    [] OTHER -> DockerHubError(-1)

\* ------------------------------------------------------------- auth manager
\* A string is a sequence of pieces, cut at every ':' and around a URL's host; undefined
\* and '' are << >>.
Undefined == << >>
Truthy(str) == str # << >>

NoCredentials == [accessToken |-> Undefined, username |-> Undefined, password |-> Undefined]

\* config.dockerhub as the environment can set it; the identity provider accepts
\* the pair <<"user">>, <<"pw">> and no other.
Configs ==
  [accessToken : {Undefined, <<"pat">>}, username : {Undefined, <<"user">>},
   password : {Undefined, <<"pw">>, <<"bad">>}]
Accepted(creds) == creds.username = <<"user">> /\ creds.password = <<"pw">>

Scopes == {Undefined, <<"repository", ":", "a/b", ":", "pull">>}
RegistryUrl == <<"https", ":", "//", "r1">>
RegistryAuths ==
  [url : {RegistryUrl}, credentials : [username : {<<"user">>},
                                       password : {Undefined, <<"pw">>, <<"bad">>}]]
NoRegistry == [url |-> Undefined, credentials |-> [username |-> Undefined, password |-> Undefined]]

AuthProcs == 1..NumAuthCalls

\* expires_in of a token response, in seconds; << >> when the response has none
ExpiresIns == {<< >>} \cup {<<n>> : n \in 0..MaxExpiresIn}

scopeOrDefault(scope) == IF Truthy(scope) THEN scope ELSE <<"default">>

\* `dockerhub:${scope || 'default'}`
hubCacheKey(scope) == <<"dockerhub", ":">> \o scopeOrDefault(scope)

\* `registry:${url}:${scope || 'default'}`
registryCacheKey(url, scope) == <<"registry", ":">> \o url \o <<":">> \o scopeOrDefault(scope)

\* cached && cached.expiresAt > Date.now()
cachedValid(tc, key, t) == key \in DOMAIN tc /\ tc[key].expiresAt > t

\* Date.now() + (expires_in || 3600) * 1000; expires_in is << >> when the response has none
expiresAtOf(expiresIn, t) ==
  t + (IF expiresIn = << >> \/ expiresIn[1] = 0 THEN 3600 ELSE expiresIn[1]) * 1000

\* getDockerHubToken looking for the username and password before the access token
credentialPathPasswordFirst(c) ==
  IF ~Truthy(c.username) \/ ~Truthy(c.password) THEN "anonymous"
  ELSE IF Truthy(c.accessToken) THEN "accessToken"
  ELSE "token"

\* getDockerHubToken: what the credentials decide before any cache or network
credentialPath(c) ==
  IF Truthy(c.accessToken) THEN "accessToken"
  ELSE IF ~Truthy(c.username) \/ ~Truthy(c.password) THEN "anonymous"
  ELSE "token"

\* discoverAuthEndpoint: the probe GET <registryUrl>/v2/ with validateStatus status === 401.
\* A probe outcome is the response's status and its www-authenticate realm (<< >> when
\* the header is missing or has no realm="..."), or NoResponse.
ProbeOutcomes ==
  {[status |-> <<401>>, realm |-> <<"https", ":", "//", "auth.r1", "/realm">>],
   [status |-> <<401>>, realm |-> << >>],
   [status |-> <<200>>, realm |-> << >>],
   [status |-> << >>, realm |-> << >>]}

\* `${url.protocol}//auth.${url.hostname}/token`
guessedEndpoint(url) == <<url[1], ":", "//", "auth." \o url[4], "/token">>

discoverAuthEndpoint(url, probe) ==
  IF probe.status # <<401>> THEN Undefined
  ELSE IF Truthy(probe.realm) THEN probe.realm
  ELSE guessedEndpoint(url)

HubEndpoint == <<"https", ":", "//", "auth.docker.io", "/token">>

IdleAuthCall ==
  [pc |-> "idle", op |-> "none", headers |-> FALSE, scope |-> Undefined, reg |-> NoRegistry,
   authUrl |-> Undefined, res |-> << >>, out |-> "none",
   validating |-> FALSE, supplied |-> NoCredentials]

\* What a call returns: a token, null, or an error thrown; createAuthHeaders turns the
\* token into {Authorization: `Bearer ${token}`} and null into {}.
tokenResult(call, token) ==
  IF call.headers THEN [t |-> "headers", v |-> <<"Bearer", token>>]
  ELSE [t |-> "token", v |-> <<token>>]
nullResult(call) ==
  IF call.headers THEN [t |-> "headers", v |-> << >>] ELSE [t |-> "null", v |-> << >>]
thrownResult(err) == [t |-> "throw", v |-> <<err>>]

\* validateCredentials: what it makes of the outcome of its getDockerHubToken():
\* try { await this.getDockerHubToken(); return true; } catch { return false; }
booleanResult(b) == [t |-> IF b THEN "true" ELSE "false", v |-> << >>]
validationOf(res) == booleanResult(res.t # "throw")

returned(call, res, out) ==
  [call EXCEPT !.pc = "done", !.res = IF call.validating THEN validationOf(res) ELSE res,
               !.out = out]

\* The token the endpoint issues for a request: bound to the endpoint, the scope and
\* the request.
issuedToken(endpoint, scope, n) == [aud |-> endpoint, scope |-> scope, n |-> n]

InitAuth(c) ==
  /\ credentials = c
  /\ tokenCache = EmptyMap
  /\ acalls = [p \in AuthProcs |-> IdleAuthCall]
  /\ tokenRequests = 0

\* getDockerHubToken(scope), or createAuthHeaders(undefined, scope), up to the token request
\* getDockerHubToken(scope) as caller p runs it up to its return or its token request
hubCall(p, call) ==
     LET path == credentialPath(credentials)
         key == hubCacheKey(call.scope)
     IN IF path = "accessToken"
          THEN /\ acalls' = [acalls EXCEPT ![p] =
                     returned(call, tokenResult(call, credentials.accessToken), "accessToken")]
               /\ UNCHANGED tokenRequests
        ELSE IF path = "anonymous"
          THEN /\ acalls' = [acalls EXCEPT ![p] = returned(call, nullResult(call), "anonymous")]
               /\ UNCHANGED tokenRequests
        ELSE IF cachedValid(tokenCache, key, now)
          THEN /\ acalls' = [acalls EXCEPT ![p] =
                     returned(call, tokenResult(call, tokenCache[key].token), "cache")]
               /\ UNCHANGED tokenRequests
        ELSE /\ acalls' = [acalls EXCEPT ![p] = [call EXCEPT !.pc = "post"]]
             /\ tokenRequests' = tokenRequests + 1

GetDockerHubToken(p, scope, viaHeaders) ==
  /\ acalls[p].pc = "idle"
  /\ hubCall(p, [IdleAuthCall EXCEPT !.op = "hub", !.headers = viaHeaders, !.scope = scope,
                                     !.authUrl = HubEndpoint])
  /\ UNCHANGED <<now, credentials, tokenCache>>
  /\ UNCHANGED <<rlVars, clientVars>>

\* out, while a call is in flight: whether the cache held a valid token for its pair
\* when the call was made
cachedAtCall(tc, url, scope, t) ==
  IF cachedValid(tc, registryCacheKey(url, scope), t) THEN "cached" ELSE "none"

\* getPrivateRegistryToken(registryAuth, scope), or createAuthHeaders(registryAuth, scope),
\* up to the probe of discoverAuthEndpoint
GetPrivateRegistryToken(p, reg, scope, viaHeaders) ==
  /\ acalls[p].pc = "idle"
  /\ LET call == [IdleAuthCall EXCEPT !.op = "private", !.headers = viaHeaders,
                                     !.scope = scope, !.reg = reg,
                                     !.out = cachedAtCall(tokenCache, reg.url, scope, now)]
     IN IF ~Truthy(reg.credentials.username) \/ ~Truthy(reg.credentials.password)
          THEN acalls' = [acalls EXCEPT ![p] = returned(call, nullResult(call), "anonymous")]
          ELSE acalls' = [acalls EXCEPT ![p] = [call EXCEPT !.pc = "probe"]]
  /\ UNCHANGED <<now, credentials, tokenCache, tokenRequests>>
  /\ UNCHANGED <<rlVars, clientVars>>

\* the probe of discoverAuthEndpoint ends; getPrivateRegistryToken goes on to the cache
\* and the token request
ProbeResponse(p, probe) ==
  /\ acalls[p].pc = "probe"
  /\ LET call == acalls[p]
         authUrl == discoverAuthEndpoint(call.reg.url, probe)
         key == registryCacheKey(call.reg.url, call.scope)
     IN IF ~Truthy(authUrl)
          THEN /\ acalls' = [acalls EXCEPT ![p] =
                     returned(call, thrownResult(AuthenticationError), "undiscovered")]
               /\ UNCHANGED tokenRequests
        ELSE IF cachedValid(tokenCache, key, now)
          THEN /\ acalls' = [acalls EXCEPT ![p] =
                     returned(call, tokenResult(call, tokenCache[key].token), "cache")]
               /\ UNCHANGED tokenRequests
        ELSE /\ acalls' = [acalls EXCEPT ![p] = [call EXCEPT !.pc = "post", !.authUrl = authUrl]]
             /\ tokenRequests' = tokenRequests + 1
  /\ UNCHANGED <<now, credentials, tokenCache>>
  /\ UNCHANGED <<rlVars, clientVars>>

callCacheKey(call) ==
  IF call.op = "hub" THEN hubCacheKey(call.scope)
  ELSE registryCacheKey(call.reg.url, call.scope)

callCredentials(call, c) ==
  IF call.op = "hub" THEN [username |-> c.username, password |-> c.password]
  ELSE call.reg.credentials

\* the token request succeeds: const { token, expires_in } = response.data; cache; return
TokenGranted(p, expiresIn) ==
  /\ acalls[p].pc = "post"
  /\ Accepted(callCredentials(acalls[p], credentials))
  /\ LET call == acalls[p]
         token == issuedToken(call.authUrl, call.scope, tokenRequests)
     IN /\ tokenCache' = MapSet(tokenCache, callCacheKey(call),
                                [token |-> token, expiresAt |-> expiresAtOf(expiresIn, now)])
        /\ acalls' = [acalls EXCEPT ![p] = returned(call, tokenResult(call, token), "granted")]
  /\ UNCHANGED <<now, credentials, tokenRequests>>
  /\ UNCHANGED <<rlVars, clientVars>>

\* what the catch block makes of the error of a token request
hubFailure(call, err) ==
  IF handleError(err).name = "AuthenticationError"
    THEN thrownResult(handleError(err)) ELSE nullResult(call)

\* getPrivateRegistryToken swallowing what is no authentication error, as getDockerHubToken does
privateFailureSwallowed(call, err) ==
  IF handleError(err).name = "AuthenticationError"
    THEN thrownResult(handleError(err)) ELSE nullResult(call)

\* getPrivateRegistryToken: catch (error) { throw ErrorHandler.handleError(error) }
privateFailure(call, err) == thrownResult(handleError(err))

\* the token request fails with err: the endpoint answers 401 exactly when it rejects
\* the credentials; any other failure can befall any request
TokenFailures(call, c) ==
  {NoResponse, SetupError, PlainError}
    \cup {AxiosError(st) : st \in FailStatuses \ {401}}
    \cup (IF Accepted(callCredentials(call, c)) THEN {} ELSE {AxiosError(401)})

TokenFailed(p, err) ==
  /\ acalls[p].pc = "post"
  /\ err \in TokenFailures(acalls[p], credentials)
  /\ LET call == acalls[p]
     IN acalls' = [acalls EXCEPT ![p] =
          returned(call, IF call.op = "hub" THEN hubFailure(call, err)
                         ELSE privateFailure(call, err),
                   IF err.response = << >> THEN "failed" ELSE "rejected")]
  /\ UNCHANGED <<now, credentials, tokenCache, tokenRequests>>
  /\ UNCHANGED <<rlVars, clientVars>>

ClearTokenCache ==
  /\ tokenCache # EmptyMap
  /\ tokenCache' = EmptyMap
  /\ UNCHANGED <<now, credentials, acalls, tokenRequests>>
  /\ UNCHANGED <<rlVars, clientVars>>

\* ------------------------------------------------------------ cache manager
\* config.cache.ttlSeconds
DefaultTtlSec == 300

CacheKeys == {"ka", "kb"}
CacheValues == {"v1", "v2"}

\* the ttl argument of set, in seconds: << >> when it is left out
CacheTtls == {<< >>, <<0>>, <<1>>}

\* set: const actualTTL = ttl || this.defaultTTL
actualTTL(ttl) == IF ttl = << >> \/ ttl[1] = 0 THEN defaultTTL ELSE ttl[1]

\* A stored record: the CacheEntry {data, timestamp, ttl} and the time t from which
\* the node-cache store holds it expired (Date.now() + ttl * 1000).
cacheEntry(data, ttl, t) ==
  [data |-> data, timestamp |-> t, ttl |-> actualTTL(ttl), t |-> t + actualTTL(ttl) * 1000]

\* the store's own lookup (this.cache.get, this.cache.has): a key whose time t lies
\* before Date.now() is deleted and reported missing
storeLookup(c, key, t) ==
  IF key \in DOMAIN c /\ c[key].t < t THEN MapDelete(c, key) ELSE c

\* the store's periodic check (checkperiod): every expired key is deleted
storeSwept(c, t) == [k \in {j \in DOMAIN c : ~(c[j].t < t)} |-> c[k]]

\* get: the store it leaves
cacheGetMap(c, key, t) ==
  LET c1 == storeLookup(c, key, t) IN
  IF key \in DOMAIN c1 /\ t - c1[key].timestamp > c1[key].ttl * 1000
    THEN MapDelete(c1, key) ELSE c1

\* get: what it returns, <<data>> or << >> for null
cacheGetRet(c, key, t) ==
  LET c1 == cacheGetMap(c, key, t) IN
  IF key \in DOMAIN c1 THEN <<c1[key].data>> ELSE << >>

\* the store's set throws ECACHEFULL when it holds maxKeys keys already, expired
\* keys not yet deleted included
cacheFull(c, m) == Cardinality(DOMAIN c) >= m

\* set: the store it leaves
cacheSetMap(c, key, data, ttl, t) == MapSet(c, key, cacheEntry(data, ttl, t))

\* has
cacheHasRet(c, key, t) == key \in DOMAIN storeLookup(c, key, t)

\* the last call of the cache manager: its operation, key and ttl argument, and what
\* it returned
NoCret == [op |-> "none", key |-> "ka", ttl |-> << >>, v |-> << >>]

CacheGet(key) ==
  /\ cache' = cacheGetMap(cache, key, now)
  /\ cret' = [op |-> "get", key |-> key, ttl |-> << >>, v |-> cacheGetRet(cache, key, now)]
  /\ UNCHANGED <<now, ccalls, httpGets, maxKeys, defaultTTL, parsed, keyed>>
  /\ UNCHANGED <<rlVars, authVars>>

\* set: v is <<"ECACHEFULL">> when the store's set has thrown
CacheSet(key, data, ttl) ==
  /\ cache' = IF cacheFull(cache, maxKeys) THEN cache
              ELSE cacheSetMap(cache, key, data, ttl, now)
  /\ cret' = [op |-> "set", key |-> key, ttl |-> ttl,
              v |-> IF cacheFull(cache, maxKeys) THEN <<"ECACHEFULL">> ELSE << >>]
  /\ UNCHANGED <<now, ccalls, httpGets, maxKeys, defaultTTL, parsed, keyed>>
  /\ UNCHANGED <<rlVars, authVars>>

CacheHas(key) ==
  /\ cache' = storeLookup(cache, key, now)
  /\ cret' = [op |-> "has", key |-> key, ttl |-> << >>,
              v |-> <<cacheHasRet(cache, key, now)>>]
  /\ UNCHANGED <<now, ccalls, httpGets, maxKeys, defaultTTL, parsed, keyed>>
  /\ UNCHANGED <<rlVars, authVars>>

\* delete
CacheDelete(key) ==
  /\ cache' = MapDelete(cache, key)
  /\ cret' = [op |-> "delete", key |-> key, ttl |-> << >>, v |-> << >>]
  /\ UNCHANGED <<now, ccalls, httpGets, maxKeys, defaultTTL, parsed, keyed>>
  /\ UNCHANGED <<rlVars, authVars>>

\* the store's periodic check runs
Sweep ==
  /\ cache' = storeSwept(cache, now)
  /\ cache' # cache
  /\ UNCHANGED <<now, cret, ccalls, httpGets, maxKeys, defaultTTL, parsed, keyed>>
  /\ UNCHANGED <<rlVars, authVars>>

\* ---------------------------------------------------------- registry client
\* withErrorHandling: maxRetries = 3
MaxRetries == 3

\* the ttl each operation caches its response with, in seconds
SearchTtl == 300
DetailsTtl == 600
TagsTtl == 300
ManifestTtl == 1800
ConfigTtl == 3600

ClientProcs == 1..NumClientCalls

\* The operations of DockerHubClient, each with one list of valid arguments:
\* searchImages("nginx"), and the others on the repository "nginx", tag "latest".
CachedOps == {"searchImages", "getRepositoryDetails", "listTags", "getManifest"}
NestedOps == {"getStatistics", "repositoryExists", "getImageSize"}
StagedOps == {"getImageConfig", "getDockerfile"}
ClientOps ==
  CachedOps \cup NestedOps \cup StagedOps
    \cup {"getVulnerabilities", "makePrivateRegistryRequest"}

\* the operations that take a repository string
RepositoryOps == ClientOps \ {"searchImages", "makePrivateRegistryRequest"}

\* the first upstream request an operation makes; getImageSize calls
\* listTags(repository, 100)
requestOf(op) ==
  CASE op = "searchImages" -> "search"
    [] op \in {"getRepositoryDetails", "getStatistics", "repositoryExists",
               "getDockerfile"} -> "details"
    [] op = "listTags" -> "tags"
    [] op = "getImageSize" -> "tags100"
    [] op \in {"getManifest", "getImageConfig"} -> "manifest"
    [] op = "getVulnerabilities" -> "scan"
    [] OTHER -> "private"

\* the request getImageConfig and getDockerfile make after the first
secondRequestOf(op) == IF op = "getImageConfig" THEN "blob" ELSE "dockerfile"

Requests == {requestOf(op) : op \in ClientOps} \cup {secondRequestOf(op) : op \in StagedOps}

\* the requests whose response is cached
CachedRequests == {requestOf(op) : op \in CachedOps \cup NestedOps} \cup {"blob"}

\* CacheManager.generateKey(endpoint, params) of the request
clientCacheKey(req) ==
  CASE req = "search" -> "search?page=1&page_size=25&q=nginx"
    [] req = "details" -> "repositories/library/nginx"
    [] req = "tags" -> "repositories/library/nginx/tags?page=1&page_size=25"
    [] req = "tags100" -> "repositories/library/nginx/tags?page=1&page_size=100"
    [] req = "blob" -> "library/nginx/blobs/sha256:c0"
    [] OTHER -> "library/nginx/manifests/latest"

ttlOf(req) ==
  CASE req = "search" -> SearchTtl
    [] req = "details" -> DetailsTtl
    [] req \in {"tags", "tags100"} -> TagsTtl
    [] req = "blob" -> ConfigTtl
    [] OTHER -> ManifestTtl

\* `repository:${namespace}/${name}:pull`
PullScope == <<"repository", ":", "library/nginx", ":", "pull">>

scopeOf(req) == IF req \in {"manifest", "blob"} THEN PullScope ELSE Undefined

\* A repository string is a sequence of characters. repository.split('/'): the parts
\* between its '/' characters, one more than there are '/'.
RECURSIVE split(_)
split(s) ==
  IF s = << >> THEN << << >> >>
  ELSE LET rest == split(Tail(s))
       IN IF Head(s) = "/" THEN << << >> >> \o rest
          ELSE << <<Head(s)>> \o rest[1] >> \o Tail(rest)

\* parseRepository with the third part dropped in place of the rejection
parseRepositoryLenient(repository) ==
  LET parts == split(repository)
  IN IF Len(parts) = 1 THEN [ok |-> TRUE, namespace |-> <<"library">>, name |-> parts[1]]
     ELSE [ok |-> TRUE, namespace |-> parts[1], name |-> parts[2]]

\* parseRepository: [namespace, name], or ok FALSE when it throws
\* Error(`Invalid repository format: ...`)
parseRepository(repository) ==
  LET parts == split(repository)
  IN IF Len(parts) = 1 THEN [ok |-> TRUE, namespace |-> <<"library">>, name |-> parts[1]]
     ELSE IF Len(parts) = 2 THEN [ok |-> TRUE, namespace |-> parts[1], name |-> parts[2]]
     ELSE [ok |-> FALSE, namespace |-> << >>, name |-> << >>]

\* the repository "nginx", and a reference with two '/'
Nginx == <<"n", "g", "i", "n", "x">>
TwoSlashes == <<"a", "/", "b", "/", "c">>

NoKeyed == [args |-> << >>, out |-> << >>]

NoParse == [repository |-> << >>, out |-> << >>]

\* parseRepository is applied to the string at hand
ParseRepository ==
  /\ parsed.out = << >>
  /\ parsed' = [parsed EXCEPT !.out = <<parseRepository(parsed.repository)>>]
  /\ UNCHANGED <<now, rlVars, authVars, cache, cret, ccalls, httpGets, maxKeys, defaultTTL, keyed>>

ClientRegistryAuth ==
  [url |-> RegistryUrl, credentials |-> [username |-> <<"user">>, password |-> <<"pw">>]]

\* An HTTP failure of a client request: the AxiosError with the headers of its response.
ClientAxiosError(status, h) ==
  [cls |-> "AxiosError", response |-> <<status>>, request |-> TRUE, headers |-> h]

\* an error of the taxonomy, thrown
Thrown(e) == [cls |-> "DockerHubError", err |-> e]

\* what a caller catches: the error object itself
caught(err) == IF err.cls = "DockerHubError" THEN err.err ELSE err

NoHeaders == Headers("x", Absent, Absent, Absent)

\* the response headers the upstream sends: none, or the limit, nothing remaining
\* and a reset time
ClientHeaders == {NoHeaders, Headers("x", HdrVal(MaxHdr), HdrVal(0), HdrVal(MaxResetSec))}

ClientStatuses == {401, 403, 404, 429, 500}

ClientFailures ==
  {ClientAxiosError(st, h) : st \in ClientStatuses, h \in ClientHeaders}
    \cup {[cls |-> "AxiosError", response |-> << >>, request |-> TRUE, headers |-> NoHeaders]}

\* handleAxiosError, case 429: the resetTime of the RateLimitError
resetTimeOf(err, t) ==
  IF err.headers.xreset # Absent THEN err.headers.xreset[1] * 1000
  ELSE IF err.headers.reset # Absent THEN err.headers.reset[1] * 1000
  ELSE t + 3600000

\* isRetryable retrying every error that carries a status
isRetryableAnyStatus(e) ==
  IF e.name = "RateLimitError" THEN TRUE
  ELSE IF e.name = "AuthenticationError" THEN FALSE
  ELSE e.statusCode # -1 /\ e.statusCode # 0

isRetryable(e) ==
  IF e.name = "RateLimitError" THEN TRUE
  ELSE IF e.name = "AuthenticationError" THEN FALSE
  ELSE IF e.statusCode # -1 /\ e.statusCode # 0
    THEN e.statusCode >= 500 \/ e.statusCode = 429
  ELSE FALSE

Min(a, b) == IF a <= b THEN a ELSE b

\* getRetryDelay backing off after a RateLimitError as after any other error
getRetryDelayBackoffOnly(e, attempt, reset, t) == Min(30000, 1000 * 2 ^ (attempt - 1))

\* getRetryDelay(error, attempt); reset is the error's resetTime
getRetryDelay(e, attempt, reset, t) ==
  IF e.name = "RateLimitError" THEN Max(0, reset - t)
  ELSE Min(30000, 1000 * 2 ^ (attempt - 1))

\* A call of the client: where it stands, its operation and repository argument, the
\* request it is at (the first or the second of the operation), the attempt of the
\* inner and of the outer withErrorHandling, its pending timer, the headers of its
\* request, its result, and the time at which it ended (kept for the properties only).
IdleClientCall ==
  [pc |-> "idle", op |-> "none", repo |-> << >>, req |-> "none", stage |-> 0,
   attempt |-> 0, outer |-> 0, wakeAt |-> -1,
   auth |-> << >>, authUrl |-> Undefined, reset |-> -1, res |-> << >>, doneAt |-> -1]

\* the client over a cache manager constructed with maxSize m and ttlSeconds d
InitClientConfig(m, d) ==
  /\ cache = EmptyMap
  /\ cret = NoCret
  /\ ccalls = [p \in ClientProcs |-> IdleClientCall]
  /\ httpGets = [r \in Requests |-> 0]
  /\ maxKeys = m
  /\ defaultTTL = d
  /\ keyed = NoKeyed
  /\ parsed = NoParse

InitClientWith(m) == InitClientConfig(m, DefaultTtlSec)

InitClient == InitClientWith(MaxKeys)

\* What one synchronous run of a call works on: the singletons and the call's record.
World(p) ==
  [cache |-> cache, limits |-> limits, maxRequests |-> maxRequests,
   tokenCache |-> tokenCache, tokenRequests |-> tokenRequests, httpGets |-> httpGets,
   call |-> ccalls[p]]

Commit(p, w) ==
  /\ cache' = w.cache
  /\ limits' = w.limits
  /\ maxRequests' = w.maxRequests
  /\ tokenCache' = w.tokenCache
  /\ tokenRequests' = w.tokenRequests
  /\ httpGets' = w.httpGets
  /\ ccalls' = [ccalls EXCEPT ![p] =
                  IF w.call.pc = "done" THEN [w.call EXCEPT !.doneAt = now] ELSE w.call]
  /\ UNCHANGED <<now, calls, started, ret, credentials, acalls, cret, maxKeys, defaultTTL, parsed, keyed>>

\* null: a value of its own, equal to no payload and to no report
Null == [null |-> TRUE]

valueResult(v) == [t |-> "value", v |-> <<v>>]

ended(w, res) == [w EXCEPT !.call.pc = "done", !.call.res = res, !.call.wakeAt = -1]

\* this.httpClient.get(...) / this.httpClient.request(...) is sent with the headers auth
issueRequest(w, auth) ==
  [w EXCEPT !.httpGets[w.call.req] = @ + 1, !.call.pc = "get", !.call.auth = auth]

bearer(token) == <<"Bearer", token>>

\* authManager.createAuthHeaders(undefined, scope) and then the request, up to the first
\* network call
hubAuthThenRequest(w, t, scope) ==
  LET path == credentialPath(credentials)
      key == hubCacheKey(scope)
  IN IF path = "accessToken" THEN issueRequest(w, bearer(credentials.accessToken))
     ELSE IF path = "anonymous" THEN issueRequest(w, << >>)
     ELSE IF cachedValid(w.tokenCache, key, t)
       THEN issueRequest(w, bearer(w.tokenCache[key].token))
     ELSE [w EXCEPT !.tokenRequests = @ + 1, !.call.pc = "token", !.call.authUrl = HubEndpoint]

\* the function each operation hands to dockerHubRateLimiter.execute
fn(w, t) ==
  LET req == w.call.req
  IN IF req = "search" THEN issueRequest(w, << >>)
     ELSE IF req = "private" THEN [w EXCEPT !.call.pc = "probe"]
     ELSE hubAuthThenRequest(w, t, scopeOf(req))

\* dockerHubRateLimiter.execute(fn): key 'default', throwOnLimit false
execute(w, t) ==
  LET ok == isAllowedRet(w.limits, w.maxRequests, t, "default")
      lim2 == isAllowedMap(w.limits, w.maxRequests, t, "default")
      until == waitForResetUntil(lim2, w.maxRequests, t, "default")
      w2 == [w EXCEPT !.limits = lim2]
  IN IF ok \/ until = -1 THEN fn(w2, t)
     ELSE [w2 EXCEPT !.call.pc = "waiting", !.call.wakeAt = until]

\* what the operation makes of the payload of its last request; getDockerfile returns
\* response.data.contents || null
resultOf(op, data) ==
  CASE op = "getStatistics" -> [stats |-> data]
    [] op = "repositoryExists" -> TRUE
    [] op = "getImageSize" -> [size |-> data]
    [] op = "getVulnerabilities" -> [report |-> data]
    [] op = "getDockerfile" -> IF data.truthy THEN [contents |-> data] ELSE Null
    [] OTHER -> data

\* the second request going upstream without a look at the cache
secondStageUncached(w, t) ==
  execute([w EXCEPT !.call.stage = 2, !.call.req = secondRequestOf(w.call.op)], t)

\* the second request of getImageConfig (the config blob, cached) and of getDockerfile
secondStage(w, t) ==
  LET req == secondRequestOf(w.call.op)
      w1 == [w EXCEPT !.call.stage = 2, !.call.req = req]
      key == clientCacheKey(req)
      w2 == [w1 EXCEPT !.cache = cacheGetMap(w.cache, key, t)]
      cached == cacheGetRet(w.cache, key, t)
  IN IF req \notin CachedRequests THEN execute(w1, t)
     ELSE IF cached # << >> THEN ended(w2, valueResult(cached[1]))
     ELSE execute(w2, t)

\* the data of the operation's first request is at hand: getImageConfig goes on to the
\* blob, getDockerfile to the Dockerfile when the repository is an automated build
firstDone(w, data, t) ==
  IF w.call.op = "getImageConfig" THEN secondStage(w, t)
  ELSE IF w.call.op = "getDockerfile"
    THEN IF data.truthy THEN secondStage(w, t) ELSE ended(w, valueResult(Null))
  ELSE ended(w, valueResult(resultOf(w.call.op, data)))

\* an attempt that skips getCachedApiResponse: every call goes upstream
startAttemptUncached(w, t) ==
  execute([w EXCEPT !.call.stage = 1, !.call.req = requestOf(w.call.op)], t)

\* an attempt that does not call parseRepository before the cache and the limiter
startAttemptUnparsed(w, t) ==
  LET req == requestOf(w.call.op)
      w1 == [w EXCEPT !.call.stage = 1, !.call.req = req]
      key == clientCacheKey(req)
      w2 == [w1 EXCEPT !.cache = cacheGetMap(w.cache, key, t)]
      cached == cacheGetRet(w.cache, key, t)
  IN IF req \notin CachedRequests THEN execute(w1, t)
     ELSE IF cached # << >> THEN firstDone(w2, cached[1], t)
     ELSE execute(w2, t)

\* One attempt of withErrorHandling. parseRepository comes first: its Error becomes a
\* DockerHubError without a status, which no wrapper retries and no operation catches.
\* Then the cache is checked, and on a miss the request goes through the rate limiter.
startAttempt(w, t) ==
  LET req == requestOf(w.call.op)
      w1 == [w EXCEPT !.call.stage = 1, !.call.req = req]
      key == clientCacheKey(req)
      w2 == [w1 EXCEPT !.cache = cacheGetMap(w.cache, key, t)]
      cached == cacheGetRet(w.cache, key, t)
  IN IF w.call.op \in RepositoryOps /\ ~parseRepository(w.call.repo).ok
       THEN ended(w1, thrownResult(handleError(PlainError)))
     ELSE IF req \notin CachedRequests THEN execute(w1, t)
     ELSE IF cached # << >> THEN firstDone(w2, cached[1], t)
     ELSE execute(w2, t)

\* the outer withErrorHandling of getStatistics, repositoryExists, getImageSize and
\* getImageConfig catches the error e thrown inside it
outerThrew(w, t, e, reset) ==
  LET o == w.call.outer
      d == getRetryDelay(e, o, reset, t)
  IN IF o = MaxRetries \/ ~isRetryable(e) THEN ended(w, thrownResult(e))
     ELSE IF d > 0 THEN [w EXCEPT !.call.pc = "obackoff", !.call.wakeAt = t + d]
     ELSE startAttempt([w EXCEPT !.call.outer = o + 1, !.call.attempt = 1], t)

\* repositoryExists passing a 404 on like every other error
innerThrewNotFoundPassed(w, t, e, reset) ==
  IF w.call.op \in CachedOps \cup {"getVulnerabilities"} THEN ended(w, thrownResult(e))
  ELSE IF w.call.op = "getDockerfile" THEN ended(w, valueResult(Null))
  ELSE outerThrew(w, t, e, reset)

\* getDockerfile passing on what it catches
innerThrewDockerfilePassed(w, t, e, reset) ==
  IF w.call.op \in CachedOps \cup {"getVulnerabilities"} THEN ended(w, thrownResult(e))
  ELSE IF w.call.op = "repositoryExists" /\ e.statusCode = 404
    THEN ended(w, valueResult(FALSE))
  ELSE outerThrew(w, t, e, reset)

\* The operation's only wrapper, or the wrapper of the operation it calls, throws e:
\* repositoryExists and getDockerfile catch it, the other operations that call another
\* let it reach their own wrapper.
innerThrew(w, t, e, reset) ==
  IF w.call.op \in CachedOps \cup {"getVulnerabilities"} THEN ended(w, thrownResult(e))
  ELSE IF w.call.op = "repositoryExists" /\ e.statusCode = 404
    THEN ended(w, valueResult(FALSE))
  ELSE IF w.call.op = "getDockerfile" THEN ended(w, valueResult(Null))
  ELSE outerThrew(w, t, e, reset)

\* getVulnerabilities treating a 404 like every other error
fnThrewScanNotFoundPassed(w, t, err) ==
  LET e == handleError(err)
      reset == IF e.name = "RateLimitError" /\ err.cls = "AxiosError"
                 THEN resetTimeOf(err, t) ELSE -1
      a == w.call.attempt
      d == getRetryDelay(e, a, reset, t)
  IN IF w.call.req = "private" THEN ended(w, thrownResult(caught(err)))
     ELSE IF w.call.stage = 2 THEN innerThrew(w, t, e, reset)
     ELSE IF a = MaxRetries \/ ~isRetryable(e) THEN innerThrew(w, t, e, reset)
     ELSE IF d > 0
       THEN [w EXCEPT !.call.pc = "backoff", !.call.wakeAt = t + d, !.call.reset = reset]
     ELSE startAttempt([w EXCEPT !.call.attempt = a + 1], t)

\* The function handed to execute throws err. makePrivateRegistryRequest lets it pass;
\* getVulnerabilities catches a 404 and returns null; the second request of
\* getImageConfig and getDockerfile has no wrapper of its own; every other request is
\* inside a withErrorHandling that retries it.
fnThrew(w, t, err) ==
  LET e == handleError(err)
      reset == IF e.name = "RateLimitError" /\ err.cls = "AxiosError"
                 THEN resetTimeOf(err, t) ELSE -1
      a == w.call.attempt
      d == getRetryDelay(e, a, reset, t)
  IN IF w.call.req = "private" THEN ended(w, thrownResult(caught(err)))
     ELSE IF w.call.op = "getVulnerabilities" /\ e.statusCode = 404
       THEN ended(w, valueResult(Null))
     ELSE IF w.call.stage = 2 THEN innerThrew(w, t, e, reset)
     ELSE IF a = MaxRetries \/ ~isRetryable(e) THEN innerThrew(w, t, e, reset)
     ELSE IF d > 0
       THEN [w EXCEPT !.call.pc = "backoff", !.call.wakeAt = t + d, !.call.reset = reset]
     ELSE startAttempt([w EXCEPT !.call.attempt = a + 1], t)

\* a caller calls an operation of the client on a repository
ClientCallOn(p, op, repo) ==
  /\ ccalls[p].pc = "idle"
  /\ LET call == [IdleClientCall EXCEPT !.op = op, !.repo = repo, !.attempt = 1, !.outer = 1]
     IN Commit(p, startAttempt([World(p) EXCEPT !.call = call], now))

\* a caller calls an operation of the client with its valid arguments
ClientCall(p, op) == ClientCallOn(p, op, Nginx)

ClientSuspended(p) == ccalls[p].pc \in {"waiting", "backoff", "obackoff"}

\* a timer fires: waitForReset returns and fn runs, or the retry delay is over and the
\* next attempt starts
ClientWake(p) ==
  /\ ClientSuspended(p)
  /\ now >= ccalls[p].wakeAt
  /\ LET w == [World(p) EXCEPT !.call.wakeAt = -1]
     IN Commit(p,
          CASE ccalls[p].pc = "waiting" -> fn(w, now)
            [] ccalls[p].pc = "backoff" ->
                 startAttempt([w EXCEPT !.call.attempt = @ + 1], now)
            [] OTHER ->
                 startAttempt([w EXCEPT !.call.outer = @ + 1, !.call.attempt = 1], now))

\* the response interceptor left out: the limiter never sees the headers
interceptedSkipped(w, h) == w

\* the response interceptor: dockerHubRateLimiter.updateFromHeaders(headers)
intercepted(w, h) ==
  [w EXCEPT !.limits = updateMap(h, w.limits, "default"),
            !.maxRequests = updateMaxRequests(h, w.maxRequests)]

\* The payload of a response: a new object each time. truthy tells whether the field
\* the operation looks at (is_automated, contents) is set.
payload(req, p, n, truthy) == [of |-> req, by |-> p, n |-> n, truthy |-> truthy]

\* The request succeeds: the interceptor, then cacheApiResponse, whose Error when the
\* store is full is thrown inside the operation, then the operation goes on.
Response(p, h, truthy) ==
  /\ ccalls[p].pc = "get"
  /\ LET w == intercepted(World(p), h)
         req == ccalls[p].req
         data == payload(req, p, httpGets[req], truthy)
         w2 == IF req \in CachedRequests
                 THEN [w EXCEPT !.cache =
                         cacheSetMap(w.cache, clientCacheKey(req), data, <<ttlOf(req)>>, now)]
                 ELSE w
     IN Commit(p,
          IF req \in CachedRequests /\ cacheFull(w.cache, maxKeys)
            THEN fnThrew(w, now, PlainError)
          ELSE IF ccalls[p].stage = 1 THEN firstDone(w2, data, now)
          ELSE ended(w2, valueResult(resultOf(ccalls[p].op, data))))

\* the failed request leaving an entry under the request's key all the same
ResponseErrorCached(p, err) ==
  /\ ccalls[p].pc = "get"
  /\ LET w == IF err.response # << >> THEN intercepted(World(p), err.headers) ELSE World(p)
         req == ccalls[p].req
         w2 == IF req \in CachedRequests
                 THEN [w EXCEPT !.cache =
                         cacheSetMap(w.cache, clientCacheKey(req),
                                     payload(req, p, httpGets[req], FALSE), <<ttlOf(req)>>, now)]
                 ELSE w
     IN Commit(p, fnThrew(w2, now, err))

\* the request fails with err
ResponseError(p, err) ==
  /\ ccalls[p].pc = "get"
  /\ LET w == IF err.response # << >> THEN intercepted(World(p), err.headers) ELSE World(p)
     IN Commit(p, fnThrew(w, now, err))

\* the credentials a call's token request carries, and the key its token is cached under
clientCredentials(call) ==
  IF call.req = "private" THEN ClientRegistryAuth.credentials
  ELSE [username |-> credentials.username, password |-> credentials.password]

clientTokenKey(call) ==
  IF call.req = "private" THEN registryCacheKey(ClientRegistryAuth.url, Undefined)
  ELSE hubCacheKey(scopeOf(call.req))

\* the token request succeeds: the token is cached and the request goes out with it
TokenResponse(p, expiresIn) ==
  /\ ccalls[p].pc = "token"
  /\ Accepted(clientCredentials(ccalls[p]))
  /\ LET call == ccalls[p]
         token == issuedToken(call.authUrl, scopeOf(call.req), tokenRequests)
         w == [World(p) EXCEPT !.tokenCache =
                 MapSet(tokenCache, clientTokenKey(call),
                        [token |-> token, expiresAt |-> expiresAtOf(expiresIn, now)])]
     IN Commit(p, issueRequest(w, bearer(token)))

\* the token request fails: getDockerHubToken throws an AuthenticationError or returns
\* null, and then the request goes out anonymously; getPrivateRegistryToken throws
TokenError(p, err) ==
  /\ ccalls[p].pc = "token"
  /\ err \in {NoResponse, AxiosError(500)}
       \cup (IF Accepted(clientCredentials(ccalls[p])) THEN {} ELSE {AxiosError(401)})
  /\ LET e == handleError(err)
     IN Commit(p,
          IF ccalls[p].req = "private" \/ e.name = "AuthenticationError"
            THEN fnThrew(World(p), now, Thrown(e))
          ELSE issueRequest(World(p), << >>))

\* createAuthHeaders(registryAuth): the probe of discoverAuthEndpoint ends
ProbeDone(p, probe) ==
  /\ ccalls[p].pc = "probe"
  /\ LET authUrl == discoverAuthEndpoint(ClientRegistryAuth.url, probe)
         key == clientTokenKey(ccalls[p])
         w == World(p)
     IN Commit(p,
          IF ~Truthy(authUrl) THEN fnThrew(w, now, Thrown(AuthenticationError))
          ELSE IF cachedValid(tokenCache, key, now)
            THEN issueRequest(w, bearer(tokenCache[key].token))
          ELSE [w EXCEPT !.tokenRequests = @ + 1, !.call.pc = "token",
                         !.call.authUrl = authUrl])

\* Time passes for the client: up to the next timer when one is pending within
\* ElapseMs, by ElapseMs otherwise; a timer that is due fires first.
ClientTimers == {ccalls[p].wakeAt : p \in {q \in ClientProcs : ClientSuspended(q)}}

\* the time the clock moves to from t when it may move by d at most
nextTimeBy(t, d) ==
  LET soon == {x \in ClientTimers : x <= t + d}
  IN IF soon = {} THEN t + d ELSE CHOOSE x \in soon : \A y \in soon : x <= y

nextTime(t) == nextTimeBy(t, ElapseMs)

\* time passes, by d at most at a time and without timers up to horizon
ClientAdvanceBy(d, horizon) ==
  /\ \A x \in ClientTimers : x > now
  /\ ClientTimers # {} \/ now + d <= horizon
  /\ now' = nextTimeBy(now, d)
  /\ UNCHANGED <<rlVars, authVars, clientVars>>

ClientAdvance == ClientAdvanceBy(ElapseMs, ClientHorizonMs)

\* ------------------------------------------------------- clock and specifications
\* The clock moves on. A timer that is due fires before the clock moves again (the
\* scheduler's lateness is below one tick). Callers start operations up to MaxNow;
\* past it the clock runs on only for the timers still pending.
TimerDue == \E p \in Procs : Suspended(p) /\ now >= calls[p].wakeAt
TimerPending == \E p \in Procs : Suspended(p)
Open == now <= MaxNow

Tick ==
  /\ now + TickMs <= MaxNow \/ TimerPending
  /\ ~TimerDue
  /\ now' = now + TickMs
  /\ UNCHANGED <<rlVars, authVars, clientVars>>

\* The limiter driven by its callers alone: no response headers reach it.
NextRL ==
  \/ Open /\ \E key \in Keys : IsAllowed(key)
  \/ Open /\ \E p \in Procs, key \in Keys, t \in BOOLEAN : Execute(p, key, t)
  \/ \E p \in Procs : Wake(p)
  \/ Open /\ \E key \in Keys : Clear(key)
  \/ Open /\ ClearAll
  \/ Tick

InitRL ==
  /\ now = StartMs
  /\ \E m \in 1..MaxLimit : InitLimiter(m)
  /\ InitAuth(NoCredentials)
  /\ InitClient

SpecRL == InitRL /\ [][NextRL]_vars

\* The event loop runs a due timer, and time passes.
FairSpecRL == SpecRL /\ WF_vars(Tick) /\ \A p \in Procs : WF_vars(Wake(p))

\* The limiter with the server's headers fed to it, and one caller.
HdrProcs == {1}

NextRLH ==
  \/ Open /\ \E key \in Keys : IsAllowed(key)
  \/ Open /\ \E p \in HdrProcs, key \in Keys, t \in BOOLEAN : Execute(p, key, t)
  \/ Open /\ \E p \in HdrProcs, key \in Keys : WaitForReset(p, key)
  \/ \E p \in HdrProcs : Wake(p)
  \/ Open /\ \E l \in HdrLimits, r \in HdrRemainings, s \in HdrResets, key \in Keys :
       \E form \in HdrForms(l) : UpdateFromHeaders(Headers(form, l, r, s), key)
  \/ Open /\ \E key \in Keys : Clear(key)
  \/ Open /\ ClearAll
  \/ Tick

SpecRLH == InitRL /\ [][NextRLH]_vars

\* The auth manager serving the default registry, with a username and password
\* configured, and a private registry.
UserPassword == [accessToken |-> Undefined, username |-> <<"user">>, password |-> <<"pw">>]

InitAuthSpec ==
  /\ now = StartMs
  /\ InitLimiter(MaxLimit)
  /\ InitAuth(UserPassword)
  /\ InitClient

NextAuth ==
  \/ \E p \in AuthProcs, scope \in Scopes, h \in BOOLEAN : GetDockerHubToken(p, scope, h)
  \/ \E p \in AuthProcs, reg \in RegistryAuths, scope \in Scopes, h \in BOOLEAN :
       GetPrivateRegistryToken(p, reg, scope, h)
  \/ \E p \in AuthProcs, probe \in ProbeOutcomes : ProbeResponse(p, probe)
  \/ \E p \in AuthProcs, e \in ExpiresIns : TokenGranted(p, e)
  \/ \E p \in AuthProcs, err \in {NoResponse, SetupError, PlainError}
                                  \cup {AxiosError(st) : st \in FailStatuses} :
       TokenFailed(p, err)
  \/ ClearTokenCache
  \/ Tick

SpecAuth == InitAuthSpec /\ [][NextAuth]_vars

\* The default registry alone, under each configuration of its credentials.
InitHub ==
  /\ now = StartMs
  /\ InitLimiter(MaxLimit)
  /\ \E c \in Configs : InitAuth(c)
  /\ InitClient

NextHub ==
  \/ \E p \in AuthProcs, scope \in Scopes, h \in BOOLEAN : GetDockerHubToken(p, scope, h)
  \/ \E p \in AuthProcs, e \in ExpiresIns : TokenGranted(p, e)
  \/ \E p \in AuthProcs, err \in {NoResponse, SetupError, PlainError}
                                  \cup {AxiosError(st) : st \in FailStatuses} :
       TokenFailed(p, err)
  \/ ClearTokenCache
  \/ Tick

SpecHub == InitHub /\ [][NextHub]_vars

\* ------------------------------------------------------------------ claims
\* C1 (as claimed): for every key, the fn invocations started through execute inside
\* the key's current window never number more than maxRequests.
C1_WindowBound == \A k \in Keys : started[k] <= maxRequests

\* C2 (as claimed): every tracked key's count is at most maxRequests.
C2_CountBound == \A k \in DOMAIN limits : limits[k].count <= maxRequests

\* C2 (amended): a count above maxRequests comes only from an updateFromHeaders that
\* lowers maxRequests; no other step makes or changes an entry whose count exceeds
\* maxRequests, so isAllowed and execute never count past the limit in force.
C2_ExcessOnlyByLoweredLimit ==
  [][\A k \in DOMAIN limits' :
       limits'[k].count > maxRequests' =>
         \/ maxRequests' < maxRequests
         \/ (k \in DOMAIN limits /\ limits[k] = limits'[k])]_vars

C2_Witness ==
  \E k \in DOMAIN limits : limits[k].count > maxRequests /\ now < limits[k].resetTime /\ ~ret

\* C3: without header updates, a call of isAllowed on a key with no entry or an elapsed
\* window opens a window {count 1, resetTime now + windowMs} and returns true; in an open
\* window it returns true and counts one more while count < maxRequests, and returns
\* false leaving the entry as it is once count = maxRequests; so count runs 1..maxRequests
\* and exactly maxRequests - 1 further calls are allowed.
IsAllowedCall(k) == IsAllowed(k) \/ \E p \in Procs, t \in BOOLEAN : Execute(p, k, t)

C3_WindowCounting ==
  /\ [](\A k \in DOMAIN limits : limits[k].count >= 1 /\ limits[k].count <= maxRequests)
  /\ [][\A k \in Keys : IsAllowedCall(k) =>
          IF k \notin DOMAIN limits \/ now >= limits[k].resetTime
            THEN ret' /\ limits'[k] = [count |-> 1, resetTime |-> now + windowMs]
            ELSE /\ ret' = (limits[k].count < maxRequests)
                 /\ limits'[k].resetTime = limits[k].resetTime
                 /\ limits'[k].count = limits[k].count + (IF ret' THEN 1 ELSE 0)]_vars

C3_Witness ==
  \E k \in DOMAIN limits :
    limits[k].count = maxRequests /\ maxRequests = MaxLimit /\ ~ret /\ now < limits[k].resetTime

\* C4 (as claimed): when a suspended waitForReset returns, the time is at or after the
\* key's current windowResetAt, and no call stays suspended after the key's current
\* windowResetAt has passed.
C4_TracksCurrentReset ==
  /\ [][\A p \in Procs :
          (Suspended(p) /\ ~Suspended(p)' /\ calls[p].key \in DOMAIN limits)
            => now >= limits[calls[p].key].resetTime]_vars
  /\ [](\A p \in Procs :
          (Suspended(p) /\ calls[p].key \in DOMAIN limits)
            => now < limits[calls[p].key].resetTime + TickMs)

\* C4 (amended): waitForReset suspends only when remaining is 0 and then until the reset
\* time getInfo reported when it was called; it returns at or after that time and is not
\* left suspended past it.
C4_WaitsForResetAtCall ==
  /\ [][\A p \in Procs :
          /\ (~Suspended(p) /\ Suspended(p)') =>
               LET info == getInfo(limits', maxRequests', now', calls'[p].key)
               IN info.remaining = 0 /\ calls'[p].wakeAt = info.reset /\ info.reset > now'
          /\ (Suspended(p) /\ ~Suspended(p)') => now >= calls[p].wakeAt]_vars
  /\ [](\A p \in Procs : Suspended(p) => now < calls[p].wakeAt + TickMs)

C4_Witness ==
  \E p \in Procs :
    /\ Suspended(p) /\ calls[p].key \in DOMAIN limits
    /\ now >= calls[p].wakeAt
    /\ limits[calls[p].key].resetTime > now

\* C5: a call of execute invokes fn at most once and never again; allowed, it invokes fn
\* at once; denied with throwOnLimit it throws a RateLimitError carrying the key's
\* resetTime, invokes nothing and leaves the limits as they were; denied without
\* throwOnLimit it waits and then invokes fn exactly once.
C5_ExactlyOnce ==
  /\ [](\A p \in Procs :
          /\ calls[p].fnCalls = (IF calls[p].pc = "done" THEN 1 ELSE 0)
          /\ calls[p].pc \in {"idle", "waiting", "done", "thrown"})
  /\ [][\A p \in Procs :
          /\ calls[p].pc \in {"done", "thrown"} => calls'[p] = calls[p]
          /\ \A k \in Keys, t \in BOOLEAN : Execute(p, k, t) =>
               IF isAllowedRet(limits, maxRequests, now, k) THEN calls'[p].pc = "done"
               ELSE IF t THEN /\ calls'[p].pc = "thrown"
                              /\ calls'[p].err = limits[k].resetTime
                              /\ limits' = limits
               ELSE calls'[p].pc = "waiting"]_vars
  /\ \A p \in Procs : (calls[p].pc = "waiting") ~> (calls[p].pc = "done")

C5_Witness ==
  \E p, q \in Procs :
    /\ calls[p].pc = "done" /\ calls[p].wakeAt # -1
    /\ calls[q].pc = "thrown"

\* C6: from every state the limiter reaches, updateFromHeaders with a limit L > 0, a
\* remaining R with 0 <= R <= L and a reset S seconds that lies in the future leaves a
\* limiter whose getInfo(key) is {limit L, remaining R, reset S * 1000}.
C6_HeaderSync ==
  \A key \in Keys, l \in 1..MaxHdr, r \in 0..MaxHdr, s \in 1..MaxResetSec :
    \A form \in {"x", "plain", "both"} :
      LET h == Headers(form, HdrVal(l), HdrVal(r), HdrVal(s))
      IN (r <= l /\ s * 1000 > now)
           => getInfo(updateMap(h, limits, key), updateMaxRequests(h, maxRequests), now, key)
                = [remaining |-> r, reset |-> s * 1000, limit |-> l]

C6_Witness ==
  \E k \in DOMAIN limits :
    /\ now = StartMs /\ limits[k].resetTime = MaxResetSec * 1000
    /\ limits[k].count = 1 /\ maxRequests = MaxHdr

\* C7 (as claimed): a call for a (registry, scope) pair whose token is cached with
\* expiresAt > now, made with a username and password, returns the cached token and
\* issues no token request, whatever any other network call does: for the default
\* registry when the call consults the cache, for a private registry (the token cached
\* when the call was made) when its endpoint probe has ended.
C7_CachedTokenReused ==
  [][\A p \in AuthProcs :
       LET key == callCacheKey(acalls'[p])
           reachesCache ==
             \/ (acalls[p].pc = "idle" /\ acalls'[p].op = "hub"
                   /\ credentialPath(credentials) = "token")
             \/ (acalls[p].pc = "probe" /\ acalls'[p].pc # "probe"
                   /\ acalls[p].out = "cached")
       IN (reachesCache /\ cachedValid(tokenCache, key, now))
            => /\ acalls'[p].pc = "done"
               /\ acalls'[p].res = tokenResult(acalls'[p], tokenCache[key].token)
               /\ tokenRequests' = tokenRequests]_vars

\* C8 (as claimed): with a username and password the identity provider rejects and no
\* access token, getDockerHubToken ends without throwing and returns null, and
\* createAuthHeaders returns the empty header map.
InvalidCredentials(c) ==
  ~Truthy(c.accessToken) /\ Truthy(c.username) /\ Truthy(c.password) /\ ~Accepted(c)

C8_InvalidCredentialsFallBack ==
  \A p \in AuthProcs :
    (acalls[p].pc = "done" /\ acalls[p].op = "hub" /\ InvalidCredentials(credentials))
      => acalls[p].res = nullResult(acalls[p])

\* C9: when the default registry's token request fails, getDockerHubToken throws an
\* AuthenticationError if and only if the failure is a 401 response, returns null
\* for every other failure, and leaves the token cache as it was.
AllFailures == {NoResponse, SetupError, PlainError} \cup {AxiosError(st) : st \in FailStatuses}

C10_CredentialPrecedence ==
  [][\A p \in AuthProcs, scope \in Scopes, h \in BOOLEAN :
       GetDockerHubToken(p, scope, h) =>
         /\ tokenCache' = tokenCache
         /\ IF Truthy(credentials.accessToken)
              THEN /\ acalls'[p].pc = "done" /\ tokenRequests' = tokenRequests
                   /\ acalls'[p].res = tokenResult(acalls'[p], credentials.accessToken)
            ELSE IF ~Truthy(credentials.username) \/ ~Truthy(credentials.password)
              THEN /\ acalls'[p].pc = "done" /\ tokenRequests' = tokenRequests
                   /\ acalls'[p].res = nullResult(acalls'[p])
            ELSE IF cachedValid(tokenCache, hubCacheKey(scope), now)
              THEN /\ acalls'[p].pc = "done" /\ tokenRequests' = tokenRequests
                   /\ acalls'[p].res = tokenResult(acalls'[p], tokenCache[hubCacheKey(scope)].token)
            ELSE acalls'[p].pc = "post" /\ tokenRequests' = tokenRequests + 1]_vars

C10_Witness ==
  /\ Truthy(credentials.accessToken) /\ Truthy(credentials.username)
  /\ Truthy(credentials.password)
  /\ \E p \in AuthProcs :
       acalls[p].pc = "done" /\ acalls[p].res = [t |-> "token", v |-> <<credentials.accessToken>>]

\* C11 (as claimed): a successful token request at time t caches expiresAt = t +
\* expires_in seconds for every expires_in the response carries, 0 included, and
\* t + 3600 seconds when the response carries none.
C11_ExpiresAtFromResponse ==
  [][\A p \in AuthProcs, e \in ExpiresIns :
       TokenGranted(p, e) =>
         tokenCache'[callCacheKey(acalls[p])].expiresAt
           = now + (IF e = << >> THEN 3600 ELSE e[1]) * 1000]_vars

\* ------------------------------------------------------------ token cache keys
\* key.startsWith(prefix), on strings cut at ':' (every prefix used ends in ':')
startsWith(str, prefix) ==
  Len(prefix) <= Len(str) /\ SubSeq(str, 1, Len(prefix)) = prefix

\* `registry:${registryUrl}:`
registryPrefix(url) == <<"registry", ":">> \o url \o <<":">>

HubPrefix == <<"dockerhub", ":">>

\* clearRegistryTokens: the keys it deletes
clearedKeys(tc, url) ==
  IF ~Truthy(url) THEN {k \in DOMAIN tc : startsWith(k, HubPrefix)}
  ELSE {k \in DOMAIN tc : startsWith(k, registryPrefix(url))}

\* clearRegistryTokens(registryUrl?)
ClearRegistryTokens(url) ==
  /\ tokenCache' = [k \in DOMAIN tokenCache \ clearedKeys(tokenCache, url) |-> tokenCache[k]]
  /\ UNCHANGED <<now, credentials, acalls, tokenRequests>>
  /\ UNCHANGED <<rlVars, clientVars>>

\* Two registries on one host, one of them on a port of its own, and scopes with and
\* without a ':' in them.
PortUrl == <<"https", ":", "//", "r1", ":", "5000">>
KeyUrls == {RegistryUrl, PortUrl}
KeyScopes == {Undefined, <<"default">>, <<"pull">>, <<"5000", ":", "pull">>}
KeyRegistryAuths ==
  [url : KeyUrls, credentials : [username : {<<"user">>}, password : {<<"pw">>}]]

\* the endpoints discoverAuthEndpoint can return for a registry
endpointsOf(url) == {discoverAuthEndpoint(url, probe) : probe \in ProbeOutcomes} \ {Undefined}

\* no call of the auth manager is in flight
Quiet == \A q \in AuthProcs : acalls[q].pc \in {"idle", "done"}

\* The auth manager's calls made one after the other, and its cache cleared in between.
NextKeys ==
  \/ Quiet /\ \E p \in AuthProcs, scope \in KeyScopes : GetDockerHubToken(p, scope, FALSE)
  \/ Quiet /\ \E p \in AuthProcs, reg \in KeyRegistryAuths, scope \in KeyScopes :
       GetPrivateRegistryToken(p, reg, scope, FALSE)
  \/ \E p \in AuthProcs, probe \in ProbeOutcomes : ProbeResponse(p, probe)
  \/ \E p \in AuthProcs, e \in ExpiresIns : TokenGranted(p, e)
  \/ Quiet /\ ClearTokenCache
  \/ Quiet /\ \E url \in {Undefined} \cup KeyUrls : ClearRegistryTokens(url)

SpecKeys == InitAuthSpec /\ [][NextKeys]_vars

\* C12 (as claimed): the token a call gets from the cache was obtained for the call's
\* own (registry identity, scope) pair: it was issued for the call's scope, by the
\* default registry's endpoint for a default-registry call and by an endpoint of the
\* call's registry for a private-registry call.
C12_TokenOfOwnPair ==
  [][\A p \in AuthProcs :
       (acalls[p].pc # "done" /\ acalls'[p].pc = "done" /\ acalls'[p].out = "cache")
         => LET call == acalls'[p]
                token == call.res.v[1]
            IN /\ token.scope = call.scope
               /\ token.aud \in (IF call.op = "hub" THEN {HubEndpoint}
                                 ELSE endpointsOf(call.reg.url))]_vars

\* the cache key of a (registry identity, scope) pair; the default registry is Undefined
pairCacheKey(pair) ==
  IF Truthy(pair[1]) THEN registryCacheKey(pair[1], pair[2]) ELSE hubCacheKey(pair[2])

\* C13 (as claimed): clearRegistryTokens(url) removes the cached tokens of the registry
\* named url and leaves those of the default registry and of every other registry as
\* they were; clearRegistryTokens() removes the default registry's tokens and leaves
\* every private registry's; clearTokenCache() removes all.
keysOf(id) == {pairCacheKey(<<id, s>>) : s \in KeyScopes}

C13_ClearsOneRegistry ==
  [][/\ \A url \in {Undefined} \cup KeyUrls :
          ClearRegistryTokens(url) =>
            /\ DOMAIN tokenCache' \cap keysOf(url) = {}
            /\ \A k \in DOMAIN tokenCache \ keysOf(url) :
                 k \in DOMAIN tokenCache' /\ tokenCache'[k] = tokenCache[k]
     /\ ClearTokenCache => tokenCache' = EmptyMap]_vars

\* C14 (as claimed): discoverAuthEndpoint returns null only when the probe gets no
\* response; with any response it returns the realm of the WWW-Authenticate header when
\* there is one and the guess <scheme>://auth.<host>/token otherwise, so the call is not
\* ended for want of an endpoint.
C14_NullOnlyWithoutResponse ==
  [][\A p \in AuthProcs, probe \in ProbeOutcomes :
       (ProbeResponse(p, probe) /\ probe.status # << >>)
         => /\ discoverAuthEndpoint(acalls[p].reg.url, probe)
                 = (IF Truthy(probe.realm) THEN probe.realm
                    ELSE guessedEndpoint(acalls[p].reg.url))
            /\ acalls'[p].out # "undiscovered"]_vars

\* C15: with a username and password in registryAuth, a private-registry call that
\* fails (no endpoint discovered, or the token request failing with any status or
\* without a response) ends by throwing an error of the taxonomy, an AuthenticationError
\* when no endpoint was discovered; it never returns null or the empty header map, and
\* the token cache is left as it was.
Normalized == {DockerHubError(st) : st \in FailStatuses \cup {-1}}
                \cup {RateLimitError, AuthenticationError}

C15_PrivateFailureThrows ==
  /\ [](\A p \in AuthProcs :
          (acalls[p].pc = "done" /\ acalls[p].op = "private"
             /\ acalls[p].out \in {"undiscovered", "failed", "rejected"})
            => /\ acalls[p].res.t = "throw"
               /\ acalls[p].res.v[1] \in Normalized)
  /\ [][\A p \in AuthProcs :
          (acalls'[p].op = "private" /\ acalls[p].pc # "done" /\ acalls'[p].pc = "done"
             /\ Truthy(acalls'[p].reg.credentials.username)
             /\ Truthy(acalls'[p].reg.credentials.password)
             /\ acalls'[p].out \notin {"cache", "granted"})
            => /\ tokenCache' = tokenCache
               /\ acalls'[p].out \in {"undiscovered", "failed", "rejected"}
               /\ acalls'[p].out = "undiscovered"
                    => acalls'[p].res = thrownResult(AuthenticationError)]_vars

C15_Witness ==
  \E p, q \in AuthProcs :
    /\ acalls[p].op = "private" /\ acalls[p].out = "undiscovered" /\ acalls[p].headers
    /\ acalls[q].op = "private" /\ acalls[q].res = thrownResult(DockerHubError(500))

\* ------------------------------------------------------- cache and client specifications
\* The cache manager on its own, its clock running past the ttl of one second.
CacheTick ==
  /\ now <= MaxNow
  /\ now' = now + TickMs
  /\ UNCHANGED <<rlVars, authVars, clientVars>>

NextCache ==
  \/ \E k \in CacheKeys, v \in CacheValues, ttl \in CacheTtls : CacheSet(k, v, ttl)
  \/ \E k \in CacheKeys : CacheGet(k)
  \/ \E k \in CacheKeys : CacheHas(k)
  \/ \E k \in CacheKeys : CacheDelete(k)
  \/ Sweep
  \/ CacheTick

SpecCache == InitAuthSpec /\ [][NextCache]_vars

\* The cached operations of the registry client, called by two callers that may
\* overlap, with the cache, the rate limiter and the auth manager behind them. The
\* upstream answers a request with a payload or with a 500, and a token request with
\* a token.
InitClientSpec ==
  /\ now = StartMs
  /\ InitLimiter(MaxLimit)
  /\ InitAuth(UserPassword)
  /\ InitClient

NextClient ==
  \/ \E p \in ClientProcs, op \in CachedOps : ClientCall(p, op)
  \/ \E p \in ClientProcs : ClientWake(p)
  \/ \E p \in ClientProcs, h \in ClientHeaders : Response(p, h, FALSE)
  \/ \E p \in ClientProcs : ResponseError(p, ClientAxiosError(500, NoHeaders))
  \/ \E p \in ClientProcs : TokenResponse(p, <<MaxExpiresIn>>)
  \/ ClientAdvance

SpecClient == InitClientSpec /\ [][NextClient]_vars

\* One caller of the operations that call other operations, and of
\* makePrivateRegistryRequest, against an upstream that may fail in every way.
RetryProcs == {1}
RetryOps == NestedOps \cup {"makePrivateRegistryRequest"}

InitRetry ==
  /\ now = StartMs
  /\ InitLimiter(MaxLimit)
  /\ InitAuth(NoCredentials)
  /\ InitClient

NextRetry ==
  \/ \E p \in RetryProcs, op \in RetryOps : ClientCall(p, op)
  \/ \E p \in RetryProcs : ClientWake(p)
  \/ \E p \in RetryProcs, h \in ClientHeaders : Response(p, h, FALSE)
  \/ \E p \in RetryProcs, err \in ClientFailures : ResponseError(p, err)
  \/ \E p \in RetryProcs : TokenResponse(p, <<MaxExpiresIn>>)
  \/ \E p \in RetryProcs, err \in {NoResponse, AxiosError(500)} : TokenError(p, err)
  \/ \E p \in RetryProcs, probe \in ProbeOutcomes : ProbeDone(p, probe)
  \/ ClientAdvance

SpecRetry == InitRetry /\ [][NextRetry]_vars

\* ------------------------------------------------------------ client cache
\* Caller p calls the cached operation op in this step, after caller q's call of op
\* with the same arguments has succeeded, and within the operation's ttl of that.
laterCallWithinTtl(p, q, op) ==
  /\ ccalls[q].pc = "done" /\ ccalls[q].op = op /\ ccalls[q].res.t = "value"
  /\ ccalls[p].pc = "idle" /\ ccalls'[p].pc # "idle" /\ ccalls'[p].op = op
  /\ now <= ccalls[q].doneAt + ttlOf(requestOf(op)) * 1000

\* The later call made no HTTP request and no token request, left the rate limiter as
\* it was and returned the cached object, the one an earlier call of op has returned.
servedFromCache(p, op) ==
  /\ httpGets' = httpGets
  /\ tokenRequests' = tokenRequests
  /\ limits' = limits /\ maxRequests' = maxRequests
  /\ ccalls'[p].pc = "done"
  /\ ccalls'[p].res = valueResult(cache[clientCacheKey(requestOf(op))].data)
  /\ \E r \in ClientProcs \ {p} :
       ccalls[r].pc = "done" /\ ccalls[r].op = op /\ ccalls[r].res = ccalls'[p].res

\* q's call returned the payload of its own upstream response, which it has cached
fetched(q) == ccalls[q].res.v[1].by = q

\* q's call is the only one made so far
onlyCall(q) == \A r \in ClientProcs \ {q} : ccalls[r].pc = "idle"

\* C16, as claimed: a call of a cached operation that follows a successful call with
\* the same arguments within the ttl is served from the cache, and the first call has
\* performed exactly one HTTP GET.
C16_FirstCallOneGet ==
  [][\A p \in ClientProcs, q \in ClientProcs, op \in CachedOps :
       p # q /\ laterCallWithinTtl(p, q, op)
         => /\ servedFromCache(p, op)
            /\ onlyCall(q) => httpGets[requestOf(op)] = 1]_vars

\* C16, corrected: a call of a cached operation that follows, within the ttl, a
\* successful call with the same arguments that fetched its response upstream performs
\* no HTTP request and no token request, leaves the rate limiter unchanged and returns
\* the identical cached object; the first call has performed one HTTP GET for each
\* attempt withErrorHandling made, one when no attempt failed and at most MaxRetries.
C16_ServedFromCache ==
  [][\A p \in ClientProcs, q \in ClientProcs, op \in CachedOps :
       p # q /\ laterCallWithinTtl(p, q, op) /\ fetched(q)
         => /\ servedFromCache(p, op)
            /\ onlyCall(q) => /\ httpGets[requestOf(op)] = ccalls[q].attempt
                               /\ ccalls[q].attempt \in 1..MaxRetries]_vars

\* C16 witness: getManifest has succeeded at its first attempt with a bearer token,
\* and a second call, made after time has passed, got the same object with no
\* further request.
C16_Witness ==
  \E p \in ClientProcs, q \in ClientProcs :
    /\ p # q
    /\ ccalls[q].pc = "done" /\ ccalls[q].op = "getManifest" /\ ccalls[q].res.t = "value"
    /\ ccalls[q].attempt = 1 /\ ccalls[q].auth # << >>
    /\ ccalls[p].pc = "done" /\ ccalls[p].op = "getManifest"
    /\ ccalls[p].res = ccalls[q].res
    /\ ccalls[p].doneAt > ccalls[q].doneAt
    /\ httpGets["manifest"] = 1 /\ tokenRequests = 1

\* the times at which a later get is looked at: the ticks of the clock after t
LaterTimes(t) == {t + i * TickMs : i \in 0..((MaxNow + TickMs - StartMs) \div TickMs)}

\* C17: set(k, v, ttl) at time t leaves a store from which get(k) returns v at every
\* time up to t + ttl seconds and absent at every time after that, the expired entry
\* being removed by that get so that has(k) is false, with no periodic check having run.
C17_LivesForItsTtl ==
  [][\A k \in CacheKeys :
       ( /\ cret'.op = "set" /\ cret'.key = k /\ cret'.ttl # << >>
         /\ k \in DOMAIN cache'
         /\ cache' = cacheSetMap(cache, k, cache'[k].data, cret'.ttl, now) )
         => \A t2 \in LaterTimes(now) :
              IF t2 <= now + cret'.ttl[1] * 1000
                THEN cacheGetRet(cache', k, t2) = <<cache'[k].data>>
                ELSE /\ cacheGetRet(cache', k, t2) = << >>
                     /\ ~cacheHasRet(cacheGetMap(cache', k, t2), k, t2)]_vars

\* C18: two calls of a cached operation with the same arguments are never both past
\* a cache miss with their upstream request in flight.
C18_OneRequestInFlight ==
  \A p \in ClientProcs, q \in ClientProcs :
    (p # q /\ ccalls[p].op \in CachedOps /\ ccalls[p].op = ccalls[q].op)
      => ~(ccalls[p].pc = "get" /\ ccalls[q].pc = "get")

\* the classes of the taxonomy: DockerHubError and its subclasses
TaxonomyNames == {"DockerHubError", "RateLimitError", "AuthenticationError"}

\* an error object is an instance of DockerHubError
inTaxonomy(e) == "name" \in DOMAIN e /\ e.name \in TaxonomyNames

\* C19: a call of the client that rejects, rejects with an error of the taxonomy,
\* never with the raw error of the HTTP client.
C19_RejectsNormalized ==
  \A p \in ClientProcs :
    (ccalls[p].pc = "done" /\ ccalls[p].res.t = "throw") => inTaxonomy(ccalls[p].res.v[1])

\* C20: one call of an operation of the client sends its upstream request at most
\* MaxRetries times, also when the operation calls another operation of the client.
C20_AtMostMaxRetries ==
  \A p \in RetryProcs :
    ccalls[p].op \in RetryOps => httpGets[requestOf(ccalls[p].op)] <= MaxRetries

\* ------------------------------------------------------------ results of the operations
\* the call of p ends in this step
endsNow(p) == ccalls[p].pc # "done" /\ ccalls'[p].pc = "done"

\* C26: repositoryExists resolves to true when the repository's details arrive, to
\* false when the request fails with a 404 and in no other case, and rejects with the
\* normalized error when it ends on any other failure.
C26_RepositoryExists ==
  [][\A p \in ClientProcs :
       ccalls[p].op = "repositoryExists" =>
         /\ \A h \in ClientHeaders :
              Response(p, h, FALSE) => endsNow(p) /\ ccalls'[p].res = valueResult(TRUE)
         /\ \A err \in ClientFailures :
              ResponseError(p, err) =>
                IF err.response = <<404>>
                  THEN endsNow(p) /\ ccalls'[p].res = valueResult(FALSE)
                  ELSE endsNow(p) => ccalls'[p].res = thrownResult(handleError(err))
         /\ (endsNow(p) /\ ccalls'[p].res = valueResult(FALSE))
              => \E err \in ClientFailures : err.response = <<404>> /\ ResponseError(p, err)]_vars

\* C26 witness: repositoryExists has resolved to false.
C26_Witness ==
  \E p \in ClientProcs :
    /\ ccalls[p].pc = "done" /\ ccalls[p].op = "repositoryExists"
    /\ ccalls[p].res = valueResult(FALSE)

\* the delay the retry wrapper inserts after catching err at the given attempt, as
\* claimed: the time left until the reset when the 429 carried a reset header, and
\* exponential backoff otherwise
claimedDelay(err, attempt, t) ==
  IF err.response = <<429>> /\ (err.headers.xreset # Absent \/ err.headers.reset # Absent)
    THEN Max(0, resetTimeOf(err, t) - t)
    ELSE Min(30000, 1000 * 2 ^ (attempt - 1))

\* p's retry wrapper (the inner one, or the outer one when the inner one is exhausted)
\* suspends in this step until its next attempt
delayed(p) == ccalls[p].pc = "get" /\ ccalls'[p].pc \in {"backoff", "obackoff"}

\* C23: the delay before a retry is the time remaining until the reset for a 429 with
\* a reset header (none when the reset is past), and min(30000, 1000 * 2^(k-1)) ms at
\* attempt k for a 429 without a reset header and for a 5xx.
C23_RetryDelay ==
  [][\A p \in ClientProcs, err \in ClientFailures :
       ResponseError(p, err) /\ ccalls[p].op \in NestedOps =>
         /\ delayed(p) =>
              ccalls'[p].wakeAt =
                now + claimedDelay(err, IF ccalls'[p].pc = "backoff" THEN ccalls[p].attempt
                                        ELSE ccalls[p].outer, now)
         /\ (isRetryable(handleError(err)) /\ ~delayed(p) /\ ~endsNow(p))
              => claimedDelay(err, ccalls[p].attempt, now) = 0]_vars

\* ------------------------------------------------------------ repository parsing
\* parseRepository on its own, applied to every string of up to MaxRepoLen characters.
RepoChars == {"a", "b", "/"}
Repositories == UNION {[1..n -> RepoChars] : n \in 0..MaxRepoLen}

InitParse ==
  /\ now = StartMs
  /\ InitLimiter(MaxLimit)
  /\ InitAuth(NoCredentials)
  /\ cache = EmptyMap /\ cret = NoCret /\ maxKeys = MaxKeys /\ defaultTTL = DefaultTtlSec
  /\ keyed = NoKeyed
  /\ ccalls = [p \in ClientProcs |-> IdleClientCall]
  /\ httpGets = [r \in Requests |-> 0]
  /\ \E s \in Repositories : parsed = [repository |-> s, out |-> << >>]

NextParse == ParseRepository

SpecParse == InitParse /\ [][NextParse]_vars

\* the positions of '/' in a string
slashesOf(s) == {i \in 1..Len(s) : s[i] = "/"}

\* the pair the claim gives for a string, or the rejection
claimedParse(s) ==
  IF slashesOf(s) = {} THEN [ok |-> TRUE, namespace |-> <<"library">>, name |-> s]
  ELSE IF Cardinality(slashesOf(s)) = 1
    THEN LET i == CHOOSE j \in slashesOf(s) : TRUE
         IN [ok |-> TRUE, namespace |-> SubSeq(s, 1, i - 1), name |-> SubSeq(s, i + 1, Len(s))]
  ELSE [ok |-> FALSE, namespace |-> << >>, name |-> << >>]

\* C27: parseRepository gives a result for every string: ("library", s) for a string
\* without '/', the parts before and after the '/' for a string with exactly one, and
\* a rejection for a string with more than one.
C27_ParseRepository ==
  /\ parsed.out = << >> => ENABLED ParseRepository
  /\ parsed.out # << >> => parsed.out[1] = claimedParse(parsed.repository)

\* C27 witness: "a/b" has been parsed into ("a", "b").
C27_Witness ==
  /\ parsed.repository = <<"a", "/", "b">>
  /\ parsed.out = <<[ok |-> TRUE, namespace |-> <<"a">>, name |-> <<"b">>]>>

\* ------------------------------------------------------------ one call of each operation
\* One caller of the operations that take a repository, with a valid and a malformed
\* reference, against an upstream that answers or fails in every way, under each kind
\* of configured credentials.
BadPassword == [accessToken |-> Undefined, username |-> <<"user">>, password |-> <<"bad">>]

\* The failures the operations are driven with: every status, and no response.
\* Rate limit headers are left to the specifications of the retry wrapper.
OpsFailures ==
  {ClientAxiosError(st, NoHeaders) : st \in ClientStatuses}
    \cup {[cls |-> "AxiosError", response |-> << >>, request |-> TRUE,
           headers |-> NoHeaders]}

InitOps ==
  /\ now = StartMs
  /\ InitLimiter(MaxLimit)
  /\ \E c \in {NoCredentials, BadPassword} : InitAuth(c)
  /\ InitClient

NextOps ==
  \/ \E p \in RetryProcs, op \in RepositoryOps, repo \in {Nginx, TwoSlashes} :
       ClientCallOn(p, op, repo)
  \/ \E p \in RetryProcs : ClientWake(p)
  \/ \E p \in RetryProcs, truthy \in BOOLEAN : Response(p, NoHeaders, truthy)
  \/ \E p \in RetryProcs, err \in OpsFailures : ResponseError(p, err)
  \/ \E p \in RetryProcs, err \in {NoResponse, AxiosError(500), AxiosError(401)} :
       TokenError(p, err)
  \/ ClientAdvance

SpecOps == InitOps /\ [][NextOps]_vars

\* ------------------------------------------------------------ malformed references
\* C28: every operation that takes a repository rejects a reference with more than one
\* '/' before any side effect: the call ends in the step that starts it with the Error
\* of parseRepository normalized, at its first attempt and without a delay, and no HTTP
\* request, no token request, no change of the limiter's windows and no change of the
\* cache comes with it.
C28_RejectedBeforeSideEffects ==
  [][\A p \in ClientProcs, op \in RepositoryOps :
       ClientCallOn(p, op, TwoSlashes) =>
         /\ ccalls'[p].pc = "done"
         /\ ccalls'[p].res = thrownResult(handleError(PlainError))
         /\ ccalls'[p].attempt = 1 /\ ccalls'[p].outer = 1
         /\ ccalls'[p].doneAt = now
         /\ UNCHANGED <<cache, httpGets, tokenRequests, tokenCache, limits, maxRequests>>]_vars

\* C28 witness: a call on a reference with two slashes has been rejected.
C28_Witness ==
  \E p \in ClientProcs :
    /\ ccalls[p].pc = "done" /\ ccalls[p].repo = TwoSlashes
    /\ ccalls[p].op = "getImageConfig"
    /\ ccalls[p].res.t = "throw"

\* ------------------------------------------------------------ what is retried
\* the statuses the retry wrapper is claimed to retry
retriedStatus(e) == e.statusCode = 429 \/ e.statusCode >= 500

\* the request of p runs again because of this step, now or after a delay
retried(p) ==
  \/ ccalls'[p].pc \in {"backoff", "obackoff"}
  \/ ccalls'[p].attempt # ccalls[p].attempt
  \/ ccalls'[p].outer # ccalls[p].outer

\* the call of p ends in this step, at once and without another request, and when it
\* ends in an error the error is e
surfaced(p, e) ==
  /\ endsNow(p) /\ ~retried(p)
  /\ ccalls'[p].doneAt = now
  /\ httpGets' = httpGets /\ tokenRequests' = tokenRequests
  /\ ccalls'[p].res.t = "throw" => ccalls'[p].res = thrownResult(e)

\* C21: a failure with a 401, a 403, a 404, no response at all, a rejected token
\* request or a malformed repository is never retried: the call ends in the step of
\* the failure, with no delay and no further request, and the error it ends in is the
\* normalized one; a request is run again only after a 429 or a status of 500 and more.
C21_OnlyRetryableRetried ==
  [][\A p \in ClientProcs :
       /\ \A err \in ClientFailures :
            ResponseError(p, err) =>
              /\ retried(p) => retriedStatus(handleError(err))
              /\ ~retriedStatus(handleError(err)) => surfaced(p, handleError(err))
       /\ \A err \in {NoResponse, AxiosError(500), AxiosError(401)} :
            TokenError(p, err) =>
              /\ ~retried(p)
              /\ err = AxiosError(401) => surfaced(p, AuthenticationError)
       /\ \A op \in RepositoryOps :
            ClientCallOn(p, op, TwoSlashes) =>
              ccalls'[p].pc = "done" /\ ccalls'[p].attempt = 1 /\ ccalls'[p].outer = 1]_vars

\* C21 witness: getStatistics has ended in the 403 of its first request, at the time
\* of the call and at the first attempt of both of its wrappers.
C21_Witness ==
  \E p \in ClientProcs :
    /\ ccalls[p].pc = "done" /\ ccalls[p].op = "getStatistics"
    /\ ccalls[p].res = thrownResult(DockerHubError(403))
    /\ ccalls[p].attempt = 1 /\ ccalls[p].outer = 1
    /\ ccalls[p].doneAt = StartMs

\* C24: getVulnerabilities resolves to null when its scan request fails with a 404 and
\* in no other case, rejects with the normalized error when it ends on any other
\* failure, and resolves to a report, which is not null, when the request succeeds.
C24_Vulnerabilities ==
  [][\A p \in ClientProcs :
       ccalls[p].op = "getVulnerabilities" =>
         /\ \A h \in ClientHeaders, truthy \in BOOLEAN :
              Response(p, h, truthy) =>
                /\ endsNow(p) /\ ccalls'[p].res.t = "value"
                /\ ccalls'[p].res.v[1] # Null
         /\ \A err \in ClientFailures :
              ResponseError(p, err) =>
                IF err.response = <<404>>
                  THEN endsNow(p) /\ ccalls'[p].res = valueResult(Null)
                  ELSE endsNow(p) => ccalls'[p].res = thrownResult(handleError(err))
         /\ TokenError(p, AxiosError(401)) =>
              endsNow(p) /\ ccalls'[p].res = thrownResult(AuthenticationError)
         /\ (endsNow(p) /\ ccalls'[p].res = valueResult(Null))
              => \E err \in ClientFailures : err.response = <<404>> /\ ResponseError(p, err)]_vars

\* C24 witness: getVulnerabilities has resolved to null.
C24_Witness ==
  \E p \in ClientProcs :
    /\ ccalls[p].pc = "done" /\ ccalls[p].op = "getVulnerabilities"
    /\ ccalls[p].res = valueResult(Null)

\* C25: getDockerfile on a well-formed repository never rejects. It resolves to null
\* when the details say the repository is no automated build, when its token request
\* is refused, and when the request for the details or for the Dockerfile fails for
\* good, whatever the failure: the second request is not retried, the first one as
\* getRepositoryDetails retries it.
C25_DockerfileBestEffort ==
  [][\A p \in ClientProcs :
       (ccalls[p].op = "getDockerfile" /\ parseRepository(ccalls[p].repo).ok) =>
         /\ ccalls'[p].pc = "done" => ccalls'[p].res.t = "value"
         /\ \A err \in ClientFailures :
              ResponseError(p, err) =>
                /\ endsNow(p) => ccalls'[p].res = valueResult(Null)
                /\ (\/ ccalls[p].stage = 2
                    \/ ccalls[p].attempt = MaxRetries
                    \/ ~retriedStatus(handleError(err))) => endsNow(p)
         /\ TokenError(p, AxiosError(401)) =>
              endsNow(p) /\ ccalls'[p].res = valueResult(Null)
         /\ \A h \in ClientHeaders :
              (Response(p, h, FALSE) /\ ccalls[p].stage = 1) =>
                endsNow(p) /\ ccalls'[p].res = valueResult(Null)]_vars

\* C25 witness: getDockerfile has resolved to null after the third failure of the
\* request for the details.
C25_Witness ==
  \E p \in ClientProcs :
    /\ ccalls[p].pc = "done" /\ ccalls[p].op = "getDockerfile"
    /\ ccalls[p].stage = 1 /\ ccalls[p].attempt = MaxRetries
    /\ httpGets["details"] = MaxRetries
    /\ ccalls[p].doneAt > StartMs
    /\ ccalls[p].res = valueResult(Null)

\* ------------------------------------------------------------ the response interceptor
\* the limiter has taken in the headers h in this step: its windows and its limit are
\* those updateFromHeaders leaves, or those the next request, when it starts in the
\* same step, leaves on passing the limiter after them
reflects(h) ==
  LET lim == updateMap(h, limits, "default")
      maxReq == updateMaxRequests(h, maxRequests)
  IN /\ maxRequests' = maxReq
     /\ limits' \in {lim, isAllowedMap(lim, maxReq, now, "default")}

\* C29: every response of an HTTP request of the client, a success as well as an error
\* of any status, has gone through updateFromHeaders when the operation gets its
\* result or its error: the step of the response leaves the limiter updated from its
\* headers, and a retry that starts in the same step passes the limiter after that.
C29_HeadersReachLimiter ==
  [][\A p \in ClientProcs :
       /\ \A h \in ClientHeaders : Response(p, h, FALSE) => reflects(h)
       /\ \A err \in ClientFailures :
            (ResponseError(p, err) /\ err.response # << >>) => reflects(err.headers)]_vars

\* C29 witness: a call has ended on an error response at the time it started, and the
\* limiter's window is the one the headers of that response announce.
C29_Witness ==
  \E p \in ClientProcs :
    /\ ccalls[p].pc = "done" /\ ccalls[p].res.t = "throw"
    /\ now = StartMs
    /\ Tracked(limits, "default")
    /\ limits["default"] = [count |-> MaxHdr, resetTime |-> MaxResetSec * 1000]

\* ------------------------------------------------------------ a 429 that names its reset
\* The 429 of the scenario: its only rate limit header is ratelimit-reset, five seconds
\* after the first request.
ResetAfterMs == 5000
ResetIn5s == Headers("plain", Absent, Absent, HdrVal((StartMs + ResetAfterMs) \div 1000))
SearchFailures == {ClientAxiosError(429, ResetIn5s), ClientAxiosError(500, NoHeaders)}

InitSearch ==
  /\ now = StartMs
  /\ InitLimiter(MaxLimit)
  /\ InitAuth(NoCredentials)
  /\ InitClient

NextSearch ==
  \/ \E p \in ClientProcs : ClientCall(p, "searchImages")
  \/ \E p \in ClientProcs : ClientWake(p)
  \/ \E p \in ClientProcs, h \in ClientHeaders : Response(p, h, FALSE)
  \/ \E p \in ClientProcs, err \in SearchFailures : ResponseError(p, err)
  \/ ClientAdvance

SpecSearch == InitSearch /\ [][NextSearch]_vars

\* C22: a searchImages call whose first request is answered by a 429 with
\* ratelimit-reset five seconds ahead sleeps until that reset without another request,
\* then runs its second attempt, whose request does not go out before the reset, and
\* when that request succeeds the call resolves with its payload: one retry, no error.
C22_RetriedOnceAfterReset ==
  [][\A p \in ClientProcs :
       /\ (/\ ResponseError(p, ClientAxiosError(429, ResetIn5s))
           /\ ccalls[p].attempt = 1
           /\ resetTimeOf(ClientAxiosError(429, ResetIn5s), now) > now)
            => /\ ccalls'[p].pc = "backoff"
               /\ ccalls'[p].wakeAt = resetTimeOf(ClientAxiosError(429, ResetIn5s), now)
               /\ ccalls'[p].reset = ccalls'[p].wakeAt
               /\ httpGets' = httpGets
       /\ (ClientWake(p) /\ ccalls[p].pc = "backoff")
            => /\ now >= ccalls[p].reset
               /\ ccalls'[p].attempt = ccalls[p].attempt + 1
       /\ (ccalls'[p].pc = "get" /\ httpGets' # httpGets /\ ccalls'[p].attempt = 2)
            => now >= ccalls'[p].reset
       /\ \A h \in ClientHeaders :
            (Response(p, h, FALSE) /\ ccalls[p].attempt = 2)
              => /\ endsNow(p) /\ ccalls'[p].attempt = 2
                 /\ ccalls'[p].res = valueResult(payload("search", p, httpGets["search"], FALSE))]_vars

\* C22 witness: a searchImages call has resolved at its second attempt, after the 429
\* that named the reset, with two requests made in all.
C22_Witness ==
  \E p \in ClientProcs :
    /\ ccalls[p].pc = "done" /\ ccalls[p].op = "searchImages"
    /\ ccalls[p].attempt = 2 /\ ccalls[p].reset > StartMs
    /\ ccalls[p].doneAt >= ccalls[p].reset
    /\ httpGets["search"] = 2
    /\ ccalls[p].res.t = "value"

\* ------------------------------------------------------------ a full cache
\* Two callers on two cached operations, over a store that holds one key.
FullOps == {"searchImages", "listTags"}

InitFull ==
  /\ now = StartMs
  /\ InitLimiter(MaxLimit)
  /\ InitAuth(NoCredentials)
  /\ InitClientWith(1)

NextFull ==
  \/ \E p \in ClientProcs, op \in FullOps : ClientCall(p, op)
  \/ \E p \in ClientProcs : ClientWake(p)
  \/ \E p \in ClientProcs, h \in ClientHeaders : Response(p, h, FALSE)
  \/ \E p \in ClientProcs : ResponseError(p, ClientAxiosError(500, NoHeaders))
  \/ ClientAdvance

SpecFull == InitFull /\ [][NextFull]_vars

\* C30: the store never holds more keys than its maximum, and a cached operation
\* whose request succeeded resolves with the payload and leaves it in the cache under
\* its key, whether or not the store was at its maximum.
C30_NeverFailsWhenFull ==
  [][\A p \in ClientProcs, h \in ClientHeaders :
       Response(p, h, FALSE) =>
         /\ Cardinality(DOMAIN cache') <= maxKeys
         /\ endsNow(p) /\ ccalls'[p].res.t = "value"
         /\ clientCacheKey(ccalls[p].req) \in DOMAIN cache']_vars

\* ------------------------------------------------------------ a configured TTL of 0
\* CACHE_TTL_SECONDS=0, which the examples give as the way to disable the cache
NoCachingTtlSec == 0

Ttl0Ops == {"searchImages", "getRepositoryDetails"}

InitTtl0 ==
  /\ now = StartMs
  /\ InitLimiter(MaxLimit)
  /\ InitAuth(NoCredentials)
  /\ InitClientConfig(MaxKeys, NoCachingTtlSec)

NextTtl0 ==
  \/ \E p \in ClientProcs, op \in Ttl0Ops : ClientCall(p, op)
  \/ \E p \in ClientProcs : ClientWake(p)
  \/ \E p \in ClientProcs, h \in ClientHeaders : Response(p, h, FALSE)
  \/ \E p \in ClientProcs : ResponseError(p, ClientAxiosError(500, NoHeaders))
  \/ ClientAdvance

SpecTtl0 == InitTtl0 /\ [][NextTtl0]_vars

\* C33: with the TTL configured as 0 no call is answered from the cache: a call never
\* ends in the step that starts it, it goes to the limiter and upstream.
C33_NeverFromCache ==
  [][\A p \in ClientProcs, op \in Ttl0Ops :
       (ClientCall(p, op) /\ defaultTTL = NoCachingTtlSec) =>
         /\ ccalls'[p].pc # "done"
         /\ ccalls'[p].pc = "get" => httpGets'[requestOf(op)] = httpGets[requestOf(op)] + 1]_vars

\* ------------------------------------------------------------ repeated calls over an hour
\* Two callers on the operations behind the manifest, the config blob and the scan,
\* with the clock moving by a quarter of an hour up to the hour the config is cached
\* for. The upstream answers with a payload, with a 404 or not at all.
LongElapseMs == 900000
LongHorizonMs == 3601000
RepeatOps == {"getManifest", "getImageConfig", "getVulnerabilities"}
RepeatFailures ==
  {ClientAxiosError(404, NoHeaders),
   [cls |-> "AxiosError", response |-> << >>, request |-> TRUE, headers |-> NoHeaders]}

InitRepeat ==
  /\ now = StartMs
  /\ InitLimiter(MaxLimit)
  /\ InitAuth(NoCredentials)
  /\ InitClient

NextRepeat ==
  \/ \E p \in ClientProcs, op \in RepeatOps : ClientCall(p, op)
  \/ \E p \in ClientProcs : ClientWake(p)
  \/ \E p \in ClientProcs : Response(p, NoHeaders, FALSE)
  \/ \E p \in ClientProcs, err \in RepeatFailures : ResponseError(p, err)
  \/ ClientAdvanceBy(LongElapseMs, LongHorizonMs)

SpecRepeat == InitRepeat /\ [][NextRepeat]_vars

\* the call of q has fetched its result upstream and succeeded, and p's call of the same
\* operation starts in this step within ttl seconds of that
repeatedWithin(p, q, op, ttl) ==
  /\ p # q
  /\ ccalls[q].pc = "done" /\ ccalls[q].op = op /\ ccalls[q].res.t = "value"
  /\ now <= ccalls[q].doneAt + ttl * 1000
  /\ ClientCall(p, op)

\* the TTL the implementation notes give for vulnerability scans
ScanTtl == 3600

\* C32: after getVulnerabilities has succeeded, a second call with the same arguments
\* within one hour issues no upstream request: it ends in the step that starts it.
C32_ScanCached ==
  [][\A p \in ClientProcs, q \in ClientProcs :
       repeatedWithin(p, q, "getVulnerabilities", ScanTtl) =>
         httpGets' = httpGets /\ ccalls'[p].pc = "done"]_vars

\* C36 as claimed: after getImageConfig has succeeded, a later call within the 3600 s
\* of the config's TTL issues no upstream request.
C36_ZeroCallsForAnHour ==
  [][\A p \in ClientProcs, q \in ClientProcs :
       repeatedWithin(p, q, "getImageConfig", ConfigTtl) =>
         httpGets' = httpGets /\ ccalls'[p].pc = "done"]_vars

\* the entry of a request's response is in the cache and no older than the request's TTL
withinTtl(req) ==
  /\ clientCacheKey(req) \in DOMAIN cache
  /\ now <= cache[clientCacheKey(req)].timestamp + ttlOf(req) * 1000

\* C36 amended: an entry of the manifest or of the config stays in the cache, as
\* fetched, until its own TTL has passed (1800 s and 3600 s from its fetch). A
\* getImageConfig call made while both are within their TTL ends at once with the
\* cached config, without an HTTP request, a token request or a slot of the limiter;
\* a call made when the manifest's entry is past its TTL goes upstream for the
\* manifest first, whether or not the config is still cached.
C36_ZeroCallsWhileBothCached ==
  [][/\ \A req \in {"manifest", "blob"} :
          (/\ clientCacheKey(req) \in DOMAIN cache
           /\ now' <= cache[clientCacheKey(req)].timestamp + ttlOf(req) * 1000)
            => /\ clientCacheKey(req) \in DOMAIN cache'
               /\ cache'[clientCacheKey(req)].timestamp >= cache[clientCacheKey(req)].timestamp
     /\ \A p \in ClientProcs :
          ClientCall(p, "getImageConfig") =>
            /\ (withinTtl("manifest") /\ withinTtl("blob")) =>
                 /\ ccalls'[p].pc = "done"
                 /\ ccalls'[p].res = valueResult(cache[clientCacheKey("blob")].data)
                 /\ UNCHANGED <<httpGets, tokenRequests, limits, cache>>
            /\ ~withinTtl("manifest") =>
                 /\ ccalls'[p].pc \in {"get", "waiting"}
                 /\ ccalls'[p].req = "manifest"
                 /\ ccalls'[p].pc = "get" => httpGets'["manifest"] = httpGets["manifest"] + 1]_vars

\* C36 witness: a getImageConfig call has ended at once, from the cache, more than a
\* quarter of an hour after the config was fetched.
C36_Witness ==
  \E p \in ClientProcs :
    /\ ccalls[p].pc = "done" /\ ccalls[p].op = "getImageConfig"
    /\ ccalls[p].res.t = "value"
    /\ clientCacheKey("blob") \in DOMAIN cache
    /\ ccalls[p].res = valueResult(cache[clientCacheKey("blob")].data)
    /\ ccalls[p].doneAt >= cache[clientCacheKey("blob")].timestamp + LongElapseMs
    /\ httpGets["blob"] = 1 /\ httpGets["manifest"] = 1

\* ------------------------------------------------------------ failed calls and the cache
\* the entries of the cache that the call of p wrote
writtenBy(p) == {k \in DOMAIN cache : cache[k].data.by = p}

\* C38 as claimed: a call that has ended in an error has left nothing in the cache.
C38_FailedCallWritesNothing ==
  \A p \in ClientProcs :
    (ccalls[p].pc = "done" /\ ccalls[p].res.t = "throw") => writtenBy(p) = {}

\* C38 amended: a request that fails writes nothing, the step of the failure adds no
\* entry and changes none; a call that has ended in an error has left no entry for the
\* request it failed at, and none at all when it is a call of searchImages,
\* getRepositoryDetails, listTags or getManifest. What an operation that calls
\* another one first has cached by then stays: the manifest of getImageConfig.
C38_FailedRequestWritesNothing ==
  [][\A p \in ClientProcs :
       /\ \A err \in ClientFailures :
            ResponseError(p, err) =>
              \A k \in DOMAIN cache' : k \in DOMAIN cache /\ cache'[k] = cache[k]
       /\ (ccalls'[p].pc = "done" /\ ccalls'[p].res.t = "throw") =>
            \A k \in DOMAIN cache' :
              cache'[k].data.by = p =>
                /\ cache'[k].data.of # ccalls'[p].req
                /\ ccalls'[p].op \notin CachedOps]_vars

\* C38 witness: getManifest has ended in an error and the cache is empty, and
\* getImageConfig has ended in an error of the request for the config.
C38_Witness ==
  \E p \in ClientProcs, q \in ClientProcs :
    /\ ccalls[p].pc = "done" /\ ccalls[p].op = "getManifest" /\ ccalls[p].res.t = "throw"
    /\ ccalls[q].pc = "done" /\ ccalls[q].op = "getImageConfig" /\ ccalls[q].res.t = "throw"
    /\ ccalls[q].req = "blob"
    /\ DOMAIN cache = {clientCacheKey("manifest")}

\* ---------------------------------------------------------------------------
\* CacheManager.generateKey, on strings
\* ---------------------------------------------------------------------------

\* the characters of a string, and the string of a sequence of strings
chars(s) == [i \in 1..Len(s) |-> SubSeq(s, i, i)]

RECURSIVE concat(_)
concat(ss) == IF Len(ss) = 0 THEN "" ELSE Head(ss) \o concat(Tail(ss))

\* the characters at hand in the order of their UTF-16 code units, which is the
\* order Array.prototype.sort compares strings by
CodeUnitOrder == "%&,-./0123456789:=?ABCDEFGHIJKLMNOPQRSTUVWXYZ_abcdefghijklmnopqrstuvwxyz"

codeUnit(c) == CHOOSE i \in 1..Len(CodeUnitOrder) : SubSeq(CodeUnitOrder, i, i) = c

RECURSIVE lessStr(_, _)
lessStr(a, b) ==
  IF Len(b) = 0 THEN FALSE
  ELSE IF Len(a) = 0 THEN TRUE
  ELSE LET x == codeUnit(SubSeq(a, 1, 1))
           y == codeUnit(SubSeq(b, 1, 1))
       IN IF x # y THEN x < y
          ELSE lessStr(SubSeq(a, 2, Len(a)), SubSeq(b, 2, Len(b)))

\* Array.prototype.sort() of strings
RECURSIVE insertSorted(_, _)
insertSorted(k, ks) ==
  IF Len(ks) = 0 THEN <<k>>
  ELSE IF lessStr(Head(ks), k) THEN <<Head(ks)>> \o insertSorted(k, Tail(ks))
  ELSE <<k>> \o ks

RECURSIVE sort(_)
sort(ks) == IF Len(ks) = 0 THEN << >> ELSE insertSorted(Head(ks), sort(Tail(ks)))

\* JavaScript values: numbers, strings and booleans
JsNumber(n) == [t |-> "number", n |-> n, s |-> ""]
JsString(s) == [t |-> "string", n |-> 0, s |-> s]
JsBoolean(b) == [t |-> "boolean", n |-> IF b THEN 1 ELSE 0, s |-> ""]

Digits == <<"0", "1", "2", "3", "4", "5", "6", "7", "8", "9">>

RECURSIVE decimal(_)
decimal(n) == IF n < 10 THEN Digits[n + 1] ELSE decimal(n \div 10) \o Digits[(n % 10) + 1]

\* String(value)
String(v) ==
  IF v.t = "number" THEN decimal(v.n)
  ELSE IF v.t = "boolean" THEN (IF v.n = 1 THEN "true" ELSE "false")
  ELSE v.s

\* encodeURIComponent: every character but letters, digits and - _ . ! ~ * ' ( )
\* is replaced by the escape of its UTF-8 encoding
percentEncoded(c) ==
  CASE c = "%" -> "%25" [] c = "&" -> "%26" [] c = "," -> "%2C" [] c = "/" -> "%2F"
    [] c = ":" -> "%3A" [] c = "=" -> "%3D" [] c = "?" -> "%3F" [] OTHER -> c

encodeURIComponent(s) == concat([i \in 1..Len(s) |-> percentEncoded(SubSeq(s, i, i))])

\* a parameter object is the sequence of its properties in insertion order
Object_keys(params) == [i \in 1..Len(params) |-> params[i].key]

valueOf(params, key) == params[CHOOSE i \in 1..Len(params) : params[i].key = key].value

\* Array.prototype.join(sep)
RECURSIVE join(_, _)
join(ss, sep) ==
  IF Len(ss) = 0 THEN ""
  ELSE IF Len(ss) = 1 THEN ss[1]
  ELSE ss[1] \o sep \o join(Tail(ss), sep)

\* generateKey joining the parameters in insertion order
generateKeyUnsorted(endpoint, params) ==
  LET keys == Object_keys(params)
      sortedParams ==
        join([i \in 1..Len(keys) |->
                keys[i] \o "=" \o encodeURIComponent(String(valueOf(params, keys[i])))], "&")
  IN endpoint \o (IF Len(sortedParams) > 0 THEN "?" \o sortedParams ELSE "")

\* CacheManager.generateKey(endpoint, params)
generateKey(endpoint, params) ==
  LET keys == sort(Object_keys(params))
      sortedParams ==
        join([i \in 1..Len(keys) |->
                keys[i] \o "=" \o encodeURIComponent(String(valueOf(params, keys[i])))], "&")
  IN endpoint \o (IF Len(sortedParams) > 0 THEN "?" \o sortedParams ELSE "")

\* the parameter objects at hand: up to MaxParams properties with distinct names
MaxParams == 2
ParamKeys == {"page", "page_size", "q"}
ParamValues ==
  {JsNumber(1), JsString("1"), JsNumber(25), JsString("a&page=1"), JsBoolean(TRUE)}
Properties == [key : ParamKeys, value : ParamValues]
ParamMaps ==
  {ps \in UNION {[1..n -> Properties] : n \in 0..MaxParams} :
     \A i \in 1..Len(ps), j \in 1..Len(ps) : i # j => ps[i].key # ps[j].key}
KeyEndpoints == {"search", "repositories/library/nginx/tags"}

\* generateKey is called on an endpoint with each of two parameter objects
GenerateKey ==
  /\ Len(keyed.args) = 3 /\ keyed.out = << >>
  /\ keyed' = [keyed EXCEPT !.out = <<generateKey(keyed.args[1], keyed.args[2]),
                                      generateKey(keyed.args[1], keyed.args[3])>>]
  /\ UNCHANGED <<now, rlVars, authVars, cache, cret, ccalls, httpGets, maxKeys, defaultTTL,
                 parsed>>

InitGenKey ==
  /\ now = StartMs
  /\ InitLimiter(MaxLimit)
  /\ InitAuth(NoCredentials)
  /\ cache = EmptyMap /\ cret = NoCret /\ maxKeys = MaxKeys /\ defaultTTL = DefaultTtlSec
  /\ parsed = NoParse
  /\ ccalls = [p \in ClientProcs |-> IdleClientCall]
  /\ httpGets = [r \in Requests |-> 0]
  /\ \E e \in KeyEndpoints, A \in ParamMaps, B \in ParamMaps :
       keyed = [args |-> <<e, A, B>>, out |-> << >>]

NextGenKey == GenerateKey

SpecGenKey == InitGenKey /\ [][NextGenKey]_vars

\* the properties of a parameter object, as a set of key/value pairs
pairs(params) == {params[i] : i \in 1..Len(params)}

sameKeys(A, B) == {p.key : p \in pairs(A)} = {p.key : p \in pairs(B)}

\* C31 as stated: parameter objects with the same key/value pairs in any insertion
\* order get the same key, and parameter objects that differ in the value of some
\* key get different keys
C31_DifferentValuesDifferentKeys ==
  keyed.out # << >> =>
    LET A == keyed.args[2]
        B == keyed.args[3]
    IN /\ pairs(A) = pairs(B) => keyed.out[1] = keyed.out[2]
       /\ (sameKeys(A, B) /\ \E p \in pairs(A) : valueOf(B, p.key) # p.value)
            => keyed.out[1] # keyed.out[2]

\* C31: parameter objects with the same key/value pairs in any insertion order get
\* the same key, and parameter objects with the same names that differ in the
\* string form String(value) of some value get different keys
C31_OrderInsensitiveInjectiveOnStrings ==
  keyed.out # << >> =>
    LET A == keyed.args[2]
        B == keyed.args[3]
    IN /\ pairs(A) = pairs(B) => keyed.out[1] = keyed.out[2]
       /\ (sameKeys(A, B) /\ \E p \in pairs(A) : String(valueOf(B, p.key)) # String(p.value))
            => keyed.out[1] # keyed.out[2]

\* C31 witness: keys were made for two objects with the same properties inserted
\* in different orders, the later name sorting first
C31_Witness ==
  /\ keyed.out # << >>
  /\ Len(keyed.args[2]) = 2 /\ pairs(keyed.args[2]) = pairs(keyed.args[3])
  /\ keyed.args[2] # keyed.args[3]
  /\ keyed.args[2][1].key = "q" /\ keyed.args[2][1].value = JsString("a&page=1")
  /\ keyed.out[1] = keyed.out[2]

\* ---------------------------------------------------------------------------
\* The cache keys of the client's operations
\* ---------------------------------------------------------------------------

\* a call of a cached operation; the arguments an operation does not take are ""
\* and 0
OpCall(op, repository, tag, query, limit, page) ==
  [op |-> op, repository |-> repository, tag |-> tag, query |-> query,
   limit |-> limit, page |-> page]

\* manifest.config.digest of the image a tag names, each tag naming an image of
\* its own
digestOf(tag) == "sha256:" \o tag

\* the key under which an operation reads and writes the cache, << >> when
\* parseRepository throws before a key is built
cacheKeyOf(c) ==
  IF c.op = "searchImages"
    THEN <<generateKey("search",
             << [key |-> "q", value |-> JsString(c.query)],
                [key |-> "page_size", value |-> JsNumber(c.limit)],
                [key |-> "page", value |-> JsNumber(c.page)] >>)>>
  ELSE LET r == parseRepository(chars(c.repository))
           namespace == concat(r.namespace)
           name == concat(r.name)
       IN IF ~r.ok THEN << >>
          ELSE IF c.op = "getRepositoryDetails"
            THEN <<generateKey("repositories/" \o namespace \o "/" \o name, << >>)>>
          ELSE IF c.op = "listTags"
            THEN <<generateKey("repositories/" \o namespace \o "/" \o name \o "/tags",
                     << [key |-> "page_size", value |-> JsNumber(c.limit)],
                        [key |-> "page", value |-> JsNumber(c.page)] >>)>>
          ELSE IF c.op = "getManifest"
            THEN <<generateKey(namespace \o "/" \o name \o "/manifests/" \o c.tag, << >>)>>
          ELSE <<generateKey(namespace \o "/" \o name \o "/blobs/" \o digestOf(c.tag),
                             << >>)>>

DefaultLimit == 25
CallRepositories == {"nginx", "library/nginx", "a/manifests", "repositories/a", "a/b/c"}
CallTags == {"latest", "tags?page=1&page_size=25"}
CallQueries == {"nginx", "a/b"}
CallPages == {1, 2}
OpCalls ==
  {OpCall("searchImages", "", "", q, DefaultLimit, pg) : q \in CallQueries, pg \in CallPages}
    \cup {OpCall("getRepositoryDetails", r, "", "", 0, 0) : r \in CallRepositories}
    \cup {OpCall("listTags", r, "", "", DefaultLimit, pg) :
            r \in CallRepositories, pg \in CallPages}
    \cup {OpCall(op, r, t, "", 0, 0) :
            op \in {"getManifest", "getImageConfig"}, r \in CallRepositories, t \in CallTags}

\* two calls each build the key of their cache entry
BuildKeys ==
  /\ Len(keyed.args) = 2 /\ keyed.out = << >>
  /\ keyed' = [keyed EXCEPT !.out = <<cacheKeyOf(keyed.args[1]), cacheKeyOf(keyed.args[2])>>]
  /\ UNCHANGED <<now, rlVars, authVars, cache, cret, ccalls, httpGets, maxKeys, defaultTTL,
                 parsed>>

InitOpKeys ==
  /\ now = StartMs
  /\ InitLimiter(MaxLimit)
  /\ InitAuth(NoCredentials)
  /\ cache = EmptyMap /\ cret = NoCret /\ maxKeys = MaxKeys /\ defaultTTL = DefaultTtlSec
  /\ parsed = NoParse
  /\ ccalls = [p \in ClientProcs |-> IdleClientCall]
  /\ httpGets = [r \in Requests |-> 0]
  /\ \E c \in OpCalls, d \in OpCalls : keyed = [args |-> <<c, d>>, out |-> << >>]

NextOpKeys == BuildKeys

SpecOpKeys == InitOpKeys /\ [][NextOpKeys]_vars

\* the repository a call names: "nginx" is "library/nginx"
namedRepository(c) ==
  LET r == parseRepository(chars(c.repository))
  IN [ok |-> r.ok, namespace |-> concat(r.namespace), name |-> concat(r.name)]

\* two calls are the same operation with the same arguments
sameCall(c, d) ==
  /\ c.op = d.op
  /\ namedRepository(c) = namedRepository(d)
  /\ c.tag = d.tag /\ c.query = d.query /\ c.limit = d.limit /\ c.page = d.page

\* C37: the cache keys of two calls coincide only when the calls are the same
\* operation with the same (repository, tag, page, limit, query) arguments
C37_KeysNeverCoincide ==
  (keyed.out # << >> /\ keyed.out[1] # << >> /\ keyed.out[1] = keyed.out[2])
    => sameCall(keyed.args[1], keyed.args[2])

\* C34: updateFromHeaders(headers, key) with a valid reset header sets the key's
\* resetTime to the header's reset time in milliseconds and its count to
\* max(0, limit - remaining), limit being the limit in force after the call: with a
\* remaining header and no limit header that is the current maxRequests, and
\* getInfo(key).remaining is then the header's remaining value
C34_CountFromLimitInForce ==
  [][\A key \in Keys, l \in HdrLimits, r \in HdrRemainings, s \in HdrResets :
       \A form \in HdrForms(l) :
         LET h == Headers(form, l, r, s)
         IN (UpdateFromHeaders(h, key) /\ hdrReset(h) > 0) =>
              /\ limits'[key].resetTime = hdrReset(h) * 1000
              /\ limits'[key].count = Max(0, maxRequests' - hdrRemaining(h))
              /\ (l = Absent /\ r # Absent /\ hdrRemaining(h) <= maxRequests
                    /\ hdrReset(h) * 1000 > now)
                   => getInfo(limits', maxRequests', now, key).remaining = hdrRemaining(h)]_vars

\* what the limiter answers for a key: getInfo(key) and the outcome of isAllowed(key)
answers(lim, maxReq, t, key) ==
  [info |-> getInfo(lim, maxReq, t, key), allowed |-> isAllowedRet(lim, maxReq, t, key)]

\* a step of an operation on key A: updateFromHeaders, isAllowed, execute (its call
\* and its resumption after the wait) or clear
operatesOn(A) ==
  \/ IsAllowed(A)
  \/ \E p \in HdrProcs, t \in BOOLEAN : Execute(p, A, t)
  \/ \E p \in HdrProcs : calls[p].key = A /\ Wake(p)
  \/ Clear(A)
  \/ \E l \in HdrLimits, r \in HdrRemainings, s \in HdrResets :
       \E form \in HdrForms(l) : UpdateFromHeaders(Headers(form, l, r, s), A)

\* C39: updateFromHeaders(headers, A), isAllowed(A), execute(fn, A) and clear(A)
\* leave getInfo(B) and the outcome of the next isAllowed(B) as they were, for every
\* other key B
C39_KeysIsolated ==
  [][\A A \in Keys, B \in Keys :
       (A # B /\ operatesOn(A)) =>
          answers(limits', maxRequests', now', B) = answers(limits, maxRequests, now, B)]_vars

\* C35: callers that acquire a token for the same (registry identity, scope) pair
\* while no valid token is cached never have two token requests for the pair in
\* flight at once
C35_OneTokenRequestPerPair ==
  \A p \in AuthProcs, q \in AuthProcs :
    (p # q /\ acalls[p].pc = "post" /\ acalls[q].pc = "post")
      => callCacheKey(acalls[p]) # callCacheKey(acalls[q])

\* ---------------------------------------------------------------------------
\* AuthManager.validateCredentials
\* ---------------------------------------------------------------------------

\* the access token the hub accepts
ValidAccessToken == <<"pat">>

\* validateCredentials(credentials), up to its return or its first request: the
\* GET of hub.docker.com/v2/user/ with the supplied access token, or
\* getDockerHubToken() when a username and a password are supplied
ValidateCredentials(p, supplied) ==
  /\ acalls[p].pc = "idle"
  /\ LET call == [IdleAuthCall EXCEPT !.validating = TRUE, !.supplied = supplied]
     IN IF Truthy(supplied.accessToken)
          THEN /\ acalls' = [acalls EXCEPT ![p] = [call EXCEPT !.op = "validate", !.pc = "get"]]
               /\ UNCHANGED tokenRequests
        ELSE IF Truthy(supplied.username) /\ Truthy(supplied.password)
          THEN hubCall(p, [call EXCEPT !.op = "hub", !.authUrl = HubEndpoint])
        ELSE /\ acalls' = [acalls EXCEPT ![p] =
                   [call EXCEPT !.op = "validate", !.pc = "done",
                                !.res = booleanResult(FALSE), !.out = "nothing"]]
             /\ UNCHANGED tokenRequests
  /\ UNCHANGED <<now, credentials, tokenCache>>
  /\ UNCHANGED <<rlVars, clientVars>>

\* the hub answers the GET made with the supplied access token: it accepts the
\* valid token, rejects another, or the request fails without an answer
UserProbeOutcomes == {"accepted", "rejected", "failed"}

UserProbeDone(p, outcome) ==
  /\ acalls[p].pc = "get" /\ acalls[p].op = "validate"
  /\ outcome = "accepted" => acalls[p].supplied.accessToken = ValidAccessToken
  /\ outcome = "rejected" => acalls[p].supplied.accessToken # ValidAccessToken
  /\ acalls' = [acalls EXCEPT ![p] =
       [@ EXCEPT !.pc = "done", !.res = booleanResult(outcome = "accepted"), !.out = outcome]]
  /\ UNCHANGED <<now, credentials, tokenCache, tokenRequests>>
  /\ UNCHANGED <<rlVars, clientVars>>

\* the credentials a caller supplies
SuppliedCredentials ==
  [accessToken : {Undefined, ValidAccessToken, <<"stale">>}, username : {Undefined, <<"user">>},
   password : {Undefined, <<"pw">>, <<"bad">>}]

\* The auth manager validating credentials, under every configuration.
NextValidate ==
  \/ \E p \in AuthProcs, c \in SuppliedCredentials : ValidateCredentials(p, c)
  \/ \E p \in AuthProcs, outcome \in UserProbeOutcomes : UserProbeDone(p, outcome)
  \/ \E p \in AuthProcs, e \in ExpiresIns : TokenGranted(p, e)
  \/ \E p \in AuthProcs, err \in {NoResponse, SetupError, PlainError}
                                  \cup {AxiosError(st) : st \in FailStatuses} :
       TokenFailed(p, err)

SpecValidate == InitHub /\ [][NextValidate]_vars

\* a caller's validateCredentials has returned or thrown
validated(p) == acalls[p].validating /\ acalls[p].pc = "done"

\* a probe made with the credentials the caller supplied was accepted upstream
acceptedUpstream(call) ==
  \/ Truthy(call.supplied.accessToken) /\ call.out = "accepted"
  \/ /\ ~Truthy(call.supplied.accessToken)
     /\ call.out = "granted"
     /\ callCredentials(call, credentials)
          = [username |-> call.supplied.username, password |-> call.supplied.password]

\* C40: validateCredentials(credentials) never throws; it returns true only if a
\* probe made with the supplied access token or the supplied username and password
\* was accepted upstream, and false when the supplied username and password are
\* rejected or the probe could not be completed
C40_DependsOnSuppliedOnly ==
  \A p \in AuthProcs :
    validated(p) =>
      LET call == acalls[p] IN
      /\ call.res.t \in {"true", "false"}
      /\ call.res.t = "true" => acceptedUpstream(call)
      /\ (/\ ~Truthy(call.supplied.accessToken)
          /\ Truthy(call.supplied.username) /\ Truthy(call.supplied.password)
          /\ ~Accepted([username |-> call.supplied.username,
                        password |-> call.supplied.password]))
           => call.res.t = "false"
      /\ call.out = "failed" => call.res.t = "false"

====
